---- MODULE Spec2Model ----
(***************************************************************************)
(* Content-addressable blob store of networkteam/filestore: the local      *)
(* filesystem backend (local.Filestore), the object-store backend          *)
(* (s3.Filestore) and the in-memory backend (memory.Filestore).            *)
(*                                                                         *)
(* A behaviour is the life of ONE store: Init picks the backend, then up   *)
(* to two callers issue Store, Remove, Fetch and Iterate calls, which run  *)
(* step by step (one step per filesystem call, object-store request or     *)
(* lock operation) and so interleave.  I/O faults are injected at every    *)
(* step whose error the code handles.                                      *)
(***************************************************************************)
EXTENDS Integers, Sequences, FiniteSets, TLC

\* ------------------------------------------------------------------ bounds
\* Number of calls one caller issues in a behaviour of sequential calls.
MaxCalls == 3
\* Number of calls two callers issue in a behaviour of overlapping calls.
MaxConcurrentCalls == 2
\* Number of I/O faults injected in a behaviour of sequential calls.
MaxFaults == 2
\* Number of I/O faults injected in a behaviour of overlapping calls.
MaxConcurrentFaults == 1
\* Largest batch size argument handed to Iterate (0..MaxBatch).
MaxBatch == 2
\* Number of calls in a behaviour that ends in an Iterate whose callback fails.
MaxIterateCalls == 4
\* Number of calls in a sequential behaviour with StoreHashed, Exists and Size.
MaxHashedCalls == 3
\* Number of calls in a behaviour whose calls may carry a cancelled context.
MaxCancelCalls == 2
MaxOverlapCalls == 3
MaxLocatorCalls == 3
MaxCollectCalls == 3
MaxMemoryCalls == 3

\* ------------------------------------------------------- program constants
DefaultPrefixSize == 2
\* 0644
DefaultTargetFileMode == 420
\* 0600, the mode os.CreateTemp gives the staging file
TempFileMode == 384

Procs == {1, 2}
Backends == {"local", "s3", "memory"}

\* ------------------------------------------------------------------ bytes
\* The byte sequences callers store: "", "d" and "gr".
Contents == {<< >>, <<100>>, <<103, 114>>}

\* hex(SHA-256(data)) as a sequence of characters, cut to its first four
\* characters.  The values are the real digests: "d" and "gr" share the
\* shard prefix "18".
Sha256Hex(data) ==
    CASE data = << >>        -> <<"e", "3", "b", "0">>
      [] data = <<100>>      -> <<"1", "8", "a", "c">>
      [] data = <<103, 114>> -> <<"1", "8", "3", "e">>
      [] OTHER               -> <<"f", "f", "f", "f">>

Hashes == {Sha256Hex(c) : c \in Contents}

\* ---------------------------------------------------------------- helpers
Range(s) == {s[i] : i \in DOMAIN s}

HexDigits == <<"/", "0", "1", "2", "3", "4", "5", "6", "7", "8", "9",
               "a", "b", "c", "d", "e", "f", "m", "p", "t">>

\* Byte order of the characters used in names and keys.
CharRank(ch) == CHOOSE i \in DOMAIN HexDigits : HexDigits[i] = ch

\* Lexical order of names, as sort.Strings orders them.
RECURSIVE NameLess(_, _)
NameLess(a, b) ==
    IF a = << >> THEN b # << >>
    ELSE IF b = << >> THEN FALSE
    ELSE IF Head(a) = Head(b) THEN NameLess(Tail(a), Tail(b))
    ELSE CharRank(Head(a)) < CharRank(Head(b))

\* The names of a set in lexical order.
RECURSIVE SortedNames(_)
SortedNames(S) ==
    IF S = {} THEN << >>
    ELSE LET m == CHOOSE x \in S : \A y \in S \ {x} : NameLess(x, y)
         IN  <<m>> \o SortedNames(S \ {m})

\* The empty directory, bucket or map.
EmptyMap == [x \in {} |-> << >>]

\* A removal that takes every entry with it.
WithoutAll(f, k) == [x \in {} |-> f[x]]

Without(f, k) == [x \in DOMAIN f \ {k} |-> f[x]]
With(f, k, v) == [x \in DOMAIN f \cup {k} |-> IF x = k THEN v ELSE f[x]]

\* ----------------------------------------------------------------- errors
\* An error value is a sequence of causes: << >> is nil, one element is a
\* plain (wrapped) error, several are a *multierror.Error.
Nil == << >>
Wrap(ctx, cause) == [ctx |-> ctx, cause |-> cause]
\* filestore.ErrNotExist, the sentinel of the store contract.
ErrNotExist == Wrap("", "filestore.ErrNotExist")
\* errors.Is(err, target): the chain of some element ends in target's cause.
ErrorsIs(err, target) == \E i \in DOMAIN err : err[i].cause = target.cause

KeepCleanupError(err, e) == <<e>>

\* multierror.Append(err, e)
MultierrorAppend(err, e) == Append(err, e)

\* ------------------------------------------------------------------ state
VARIABLES
    backend,     \* which backend this store is
    callers,     \* how many callers use the store (1: calls never overlap)
    tmpDir,      \* local: staging directory, file name -> bytes written
    assetDirs,   \* local: the shard directories under the assets directory
    assetFiles,  \* local: <<shard, name>> -> [data, mode]
    bucket,      \* s3: object key -> bytes
    files,       \* memory: map hash -> bytes
    mx,          \* memory: the sync.RWMutex
    proc,        \* the callers: position and locals of the running call
    calls,       \* calls issued so far
    faults,      \* faults injected so far
    expect,      \* history: hash -> "absent" | "present" | "removed" |
                 \*          "mismatched" | "unknown"
    overlap,     \* history: some call ran while another call was running
    failed       \* history: some Store or Remove returned an error

vars == <<backend, callers, tmpDir, assetDirs, assetFiles, bucket, files, mx, proc,
          calls, faults, expect, overlap, failed>>

localVars == <<tmpDir, assetDirs, assetFiles>>
s3Vars == <<bucket>>
memVars == <<files, mx>>
storeVars == <<tmpDir, assetDirs, assetFiles, bucket, files, mx>>
histVars == <<expect, overlap, failed>>

\* A caller that is not in a call.
NoCall ==
    [pc |-> "idle", op |-> "none", content |-> << >>, arg |-> << >>,
     maxBatch |-> 0, callNo |-> 0,
     tmpWasClosed |-> FALSE, tmpWasRenamed |-> FALSE, fdClosed |-> FALSE,
     existed |-> FALSE, hashHex |-> << >>,
     hash |-> << >>, err |-> Nil, retErr |-> Nil, cleanErr |-> Nil,
     data |-> << >>, hashes |-> << >>, batches |-> << >>,
     array |-> << >>, kept |-> << >>,
     todoDirs |-> << >>, todo |-> << >>, raced |-> FALSE, sawRemove |-> FALSE,
     failAt |-> 0, ctxDone |-> FALSE, ok |-> FALSE, size |-> 0,
     stable |-> {}, url |-> << >>,
     collect |-> FALSE, pending |-> << >>, resume |-> ""]

Busy(p) == proc[p].pc \notin {"idle", "done"}

\* The hash a running call is about.
Target(r) == IF r.op = "Store" THEN Sha256Hex(r.content) ELSE r.arg

\* A call that writes bytes under the hash of these bytes: a Store, or a
\* StoreHashed whose caller supplies the right hash.
Writes(r) ==
    \/ r.op = "Store"
    \/ r.op = "StoreHashed" /\ r.arg = Sha256Hex(r.content)

\* A StoreHashed whose caller supplies a hash that is not the hash of the
\* bytes.
Mismatched(r) == r.op = "StoreHashed" /\ r.arg # Sha256Hex(r.content)

\* A Store and a Remove of the same hash.
Conflict(r, s) ==
    /\ {r.op, s.op} = {"Store", "Remove"}
    /\ Target(r) = Target(s)

\* The store after construction (NewFilestore): empty staging and assets
\* directories, an empty bucket, an empty map.
Constructed ==
    /\ backend \in Backends
    /\ tmpDir = EmptyMap
    /\ assetDirs = {}
    /\ assetFiles = EmptyMap
    /\ bucket = EmptyMap
    /\ files = EmptyMap
    /\ mx = [writer |-> FALSE, readers |-> 0]
    /\ proc = [p \in Procs |-> NoCall]
    /\ calls = 0
    /\ faults = 0
    /\ expect = [h \in Hashes |-> "absent"]
    /\ overlap = FALSE
    /\ failed = FALSE

\* One caller: the calls of a behaviour follow one another.
Init == Constructed /\ callers = 1

\* Two callers: the calls of a behaviour may overlap.
InitConcurrent == Constructed /\ callers = 2

\* Two callers of an in-memory store.
InitMemory == InitConcurrent /\ backend = "memory"

\* ------------------------------------------------------------------ calls
CallLimit == IF callers = 1 THEN MaxCalls ELSE MaxConcurrentCalls

\* The names under which something is held in the store at the moment.
Held ==
    CASE backend = "local"  -> {t[2] : t \in DOMAIN assetFiles}
      [] backend = "s3"     -> DOMAIN bucket
      [] backend = "memory" -> DOMAIN files

\* make([]string, 0, maxBatch): the backing array of the slice hashes, with
\* the zero value in every place.
Make(cap) == [i \in 1 .. cap |-> << >>]

\* A caller invokes an operation.  The call goes to the first caller that
\* is free, so caller 2 only ever runs calls that overlap one of caller 1.
\* In the record of an Iterate, stable notes the names held when it was
\* called that no Remove running since has been asked to remove.
InvokeWithin(p, r, limit) ==
    /\ ~Busy(p)
    /\ \A q \in Procs : q < p => Busy(q)
    /\ p <= callers
    /\ calls < limit
    /\ calls' = calls + 1
    /\ LET new == [r EXCEPT !.pc = "start", !.callNo = calls + 1,
                            !.array = IF r.op = "Iterate"
                                      THEN Make(r.maxBatch) ELSE << >>,
                            !.raced = \E q \in Procs \ {p} :
                                         Busy(q) /\ Conflict(r, proc[q]),
                            !.sawRemove = \E q \in Procs \ {p} :
                                         Busy(q) /\ proc[q].op = "Remove",
                            !.stable = IF r.op # "Iterate" THEN {}
                                       ELSE Held \ {proc[q].arg : q \in
                                              {t \in Procs \ {p} : Busy(t)
                                                 /\ proc[t].op = "Remove"}}]
       IN  proc' = [q \in Procs |->
                      IF q = p THEN new
                      ELSE IF Busy(q)
                           THEN [proc[q] EXCEPT
                                   !.raced = @ \/ Conflict(r, proc[q]),
                                   !.sawRemove = @ \/ r.op = "Remove",
                                   !.stable = IF r.op = "Remove"
                                              THEN @ \ {r.arg} ELSE @]
                           ELSE proc[q]]
    /\ overlap' = (overlap \/ \E q \in Procs \ {p} : Busy(q))
    /\ expect' = IF Mismatched(r)
                 THEN [expect EXCEPT ![r.arg] = "mismatched"]
                 ELSE IF Target(r) \in Hashes /\ expect[Target(r)] = "mismatched"
                 THEN expect
                 ELSE IF r.op = "Remove" /\ r.arg \in Hashes
                 THEN [expect EXCEPT ![r.arg] = "unknown"]
                 ELSE IF Writes(r)
                         /\ expect[Target(r)] \in {"absent", "removed"}
                 THEN [expect EXCEPT ![Target(r)] = "unknown"]
                 ELSE expect
    /\ UNCHANGED <<backend, callers, storeVars, faults, failed>>

Invoke(p, r) == InvokeWithin(p, r, CallLimit)

CallStore(p) ==
    \E c \in Contents : Invoke(p, [NoCall EXCEPT !.op = "Store", !.content = c])

CallRemove(p) ==
    \E h \in Hashes : Invoke(p, [NoCall EXCEPT !.op = "Remove", !.arg = h])

CallFetch(p) ==
    \E h \in Hashes : Invoke(p, [NoCall EXCEPT !.op = "Fetch", !.arg = h])

CallIterate(p) ==
    \E k \in 0 .. MaxBatch :
        Invoke(p, [NoCall EXCEPT !.op = "Iterate", !.maxBatch = k])

\* Iterate with a callback that fails at one of its invocations.
CallIterateFailing(p) ==
    \E k \in 1 .. MaxBatch, n \in 1 .. MaxBatch :
        InvokeWithin(p, [NoCall EXCEPT !.op = "Iterate", !.maxBatch = k,
                                       !.failAt = n], MaxIterateCalls)

\* A Store in a behaviour of Stores and Iterates.
CallStoreBefore(p) ==
    \E c \in Contents :
        InvokeWithin(p, [NoCall EXCEPT !.op = "Store", !.content = c],
                     MaxIterateCalls)

\* The calls of a sequential behaviour with StoreHashed, Exists and Size
\* work on "d" and "gr" and their hashes.
HashedContents == {<<100>>, <<103, 114>>}
HashedHashes == {Sha256Hex(c) : c \in HashedContents}

HashedStore(p) ==
    \E c \in HashedContents :
        InvokeWithin(p, [NoCall EXCEPT !.op = "Store", !.content = c],
                     MaxHashedCalls)

CallStoreHashed(p) ==
    \E c \in HashedContents, h \in HashedHashes :
        InvokeWithin(p, [NoCall EXCEPT !.op = "StoreHashed", !.content = c,
                                       !.arg = h], MaxHashedCalls)

HashedRemove(p) ==
    \E h \in HashedHashes :
        InvokeWithin(p, [NoCall EXCEPT !.op = "Remove", !.arg = h],
                     MaxHashedCalls)

HashedFetch(p) ==
    \E h \in HashedHashes :
        InvokeWithin(p, [NoCall EXCEPT !.op = "Fetch", !.arg = h],
                     MaxHashedCalls)

CallExists(p) ==
    \E h \in HashedHashes :
        InvokeWithin(p, [NoCall EXCEPT !.op = "Exists", !.arg = h],
                     MaxHashedCalls)

CallSize(p) ==
    \E h \in HashedHashes :
        InvokeWithin(p, [NoCall EXCEPT !.op = "Size", !.arg = h],
                     MaxHashedCalls)

\* The calls of a behaviour of overlapping Store and StoreHashed calls.
ConcurrentStore(p) ==
    \E c \in HashedContents :
        InvokeWithin(p, [NoCall EXCEPT !.op = "Store", !.content = c],
                     MaxConcurrentCalls)

ConcurrentStoreHashed(p) ==
    \E c \in HashedContents, h \in HashedHashes :
        InvokeWithin(p, [NoCall EXCEPT !.op = "StoreHashed", !.content = c,
                                       !.arg = h], MaxConcurrentCalls)

\* The calls of a behaviour in which Store and Remove overlap an Iterate.
OverlapStore(p) ==
    \E c \in HashedContents :
        InvokeWithin(p, [NoCall EXCEPT !.op = "Store", !.content = c],
                     MaxOverlapCalls)

OverlapRemove(p) ==
    \E h \in HashedHashes :
        InvokeWithin(p, [NoCall EXCEPT !.op = "Remove", !.arg = h],
                     MaxOverlapCalls)

OverlapIterate(p) ==
    \E k \in 1 .. MaxBatch :
        InvokeWithin(p, [NoCall EXCEPT !.op = "Iterate", !.maxBatch = k],
                     MaxOverlapCalls)

\* The calls of a behaviour that asks for locators: of the hashes of "d"
\* and "gr", of the empty string, and of strings of one, two and five
\* characters.
LocatorHashes ==
    HashedHashes \cup {<< >>, <<"1">>, <<"1", "8">>,
                       <<"1", "8", "a", "c", "0">>}

\* The strings shorter than a shard prefix among them.
ShortHashes == {h \in LocatorHashes : Len(h) < DefaultPrefixSize}

LocatorStore(p) ==
    \E c \in HashedContents :
        InvokeWithin(p, [NoCall EXCEPT !.op = "Store", !.content = c],
                     MaxLocatorCalls)

CallImgproxyURLSource(p) ==
    \E h \in LocatorHashes :
        InvokeWithin(p, [NoCall EXCEPT !.op = "ImgproxyURLSource", !.arg = h],
                     MaxLocatorCalls)

\* Fetch, Remove and Size of the local store with a string that is too
\* short to be a hash.
CallWithShortHash(p) ==
    \E o \in {"Fetch", "Remove", "Size"}, h \in ShortHashes :
        /\ backend = "local"
        /\ InvokeWithin(p, [NoCall EXCEPT !.op = o, !.arg = h],
                        MaxLocatorCalls)

\* The calls of a behaviour that fills the store and collects it: Stores,
\* and Iterates whose callback removes every hash it is given.
CollectStore(p) ==
    \E c \in Contents :
        InvokeWithin(p, [NoCall EXCEPT !.op = "Store", !.content = c],
                     MaxCollectCalls)

CollectRemove(p) ==
    \E h \in Hashes :
        InvokeWithin(p, [NoCall EXCEPT !.op = "Remove", !.arg = h],
                     MaxCollectCalls)

CallCollect(p) ==
    \E k \in 1 .. MaxBatch :
        InvokeWithin(p, [NoCall EXCEPT !.op = "Iterate", !.maxBatch = k,
                                       !.collect = TRUE], MaxCollectCalls)

\* The calls of a behaviour of two callers of every operation of the
\* in-memory store.
MemoryCalls ==
    {[NoCall EXCEPT !.op = "Store", !.content = c] : c \in HashedContents}
    \cup {[NoCall EXCEPT !.op = "StoreHashed", !.content = c, !.arg = h] :
              c \in HashedContents, h \in HashedHashes}
    \cup {[NoCall EXCEPT !.op = o, !.arg = h] :
              o \in {"Fetch", "Exists", "Remove", "Size"}, h \in HashedHashes}
    \cup {[NoCall EXCEPT !.op = "Iterate", !.maxBatch = 1]}

CallMemory(p) ==
    \E r \in MemoryCalls : InvokeWithin(p, r, MaxMemoryCalls)

\* The calls of a behaviour whose contexts may be cancelled.
CancelCalls ==
    {[NoCall EXCEPT !.op = "Store", !.content = c] : c \in HashedContents}
    \cup {[NoCall EXCEPT !.op = "StoreHashed", !.content = c, !.arg = Sha256Hex(c)] :
              c \in HashedContents}
    \cup {[NoCall EXCEPT !.op = o, !.arg = h] :
              o \in {"Fetch", "Exists", "Remove", "Size"}, h \in HashedHashes}
    \cup {[NoCall EXCEPT !.op = "Iterate", !.maxBatch = 1]}

\* A call with a context that is live, or cancelled already.
CallWithContext(p) ==
    \E r \in CancelCalls, done \in BOOLEAN :
        InvokeWithin(p, [r EXCEPT !.ctxDone = done], MaxCancelCalls)

\* What the caller holds after the call: the arguments and the results.
Result(r) ==
    [NoCall EXCEPT !.pc = "done", !.op = r.op, !.content = r.content,
                   !.arg = r.arg, !.maxBatch = r.maxBatch, !.callNo = r.callNo,
                   !.tmpWasRenamed = r.tmpWasRenamed, !.existed = r.existed,
                   !.hash = r.hash, !.err = r.err, !.retErr = r.retErr,
                   !.cleanErr = r.cleanErr, !.data = r.data,
                   !.batches = r.batches, !.array = r.array,
                   !.kept = r.kept, !.raced = r.raced,
                   !.sawRemove = r.sawRemove, !.failAt = r.failAt,
                   !.ctxDone = r.ctxDone, !.ok = r.ok, !.size = r.size,
                   !.stable = r.stable, !.url = r.url, !.collect = r.collect]

\* The call of p returns with the results in r: the history is brought up
\* to date.  A Store or Remove that overlapped its opposite on the same hash
\* says nothing about what is under the hash afterwards.
Return(p, r) ==
    /\ proc' = [proc EXCEPT ![p] = Result(r)]
    /\ failed' = (failed \/ (r.op \in {"Store", "StoreHashed", "Remove"}
                              /\ r.err # Nil))
    /\ expect' =
         IF r.err # Nil \/ ~(Writes(r) \/ r.op = "Remove") THEN expect
         ELSE [expect EXCEPT ![Target(r)] =
                 IF r.raced THEN "unknown"
                 ELSE IF r.op = "Remove" THEN "removed"
                 ELSE IF @ = "mismatched" THEN @ ELSE "present"]
    /\ UNCHANGED overlap

FaultLimit == IF callers = 1 THEN MaxFaults ELSE MaxConcurrentFaults

\* An I/O fault is injected.
Fault ==
    /\ faults < FaultLimit
    /\ faults' = faults + 1

NoFault == UNCHANGED faults

\* ------------------------------------------------------------ local: Store
\* errInvalidHash
errInvalidHash == Wrap("", "errInvalidHash")

\* f.PrefixSize, as NewFilestore sets it.
PrefixSize == DefaultPrefixSize

\* The first characters of the hash, of whatever length it is.
prefixPathUnchecked(hash) ==
    [path |-> SubSeq(hash, 1, IF Len(hash) < PrefixSize THEN Len(hash)
                              ELSE PrefixSize),
     err |-> Nil]

\* f.prefixPath(hash): hash[0:f.PrefixSize], or errInvalidHash for a hash
\* shorter than that.
prefixPath(hash) ==
    IF Len(hash) < PrefixSize
    THEN [path |-> << >>, err |-> <<errInvalidHash>>]
    ELSE [path |-> SubSeq(hash, 1, PrefixSize), err |-> Nil]

\* The path of the blob of a hash below the assets directory.
targetPath(hash) == <<prefixPath(hash).path, hash>>

\* os.CreateTemp(f.tmpPath, "image-upload-*"): a fresh name, an empty file.
LocalStoreCreateTemp(p) ==
    LET r == proc[p] IN
    /\ backend = "local" /\ r.op = "Store" /\ r.pc = "start"
    /\ \/ /\ NoFault
          /\ tmpDir' = With(tmpDir, r.callNo, << >>)
          /\ proc' = [proc EXCEPT ![p].pc = "copy"]
          /\ UNCHANGED histVars
       \/ /\ Fault
          /\ Return(p, [r EXCEPT !.err = <<Wrap("creating temp file", "EIO")>>])
          /\ UNCHANGED tmpDir
    /\ UNCHANGED <<backend, callers, assetDirs, assetFiles, s3Vars, memVars, calls>>

\* io.Copy(digest, io.TeeReader(r, tempFile)): one byte per step, then the
\* digest, prefixPath and the next statement's position.
LocalStoreCopy(p) ==
    LET r == proc[p]
        written == tmpDir[r.callNo]
    IN
    /\ backend = "local" /\ r.op = "Store" /\ r.pc = "copy"
    /\ \/ /\ Len(written) < Len(r.content)
          /\ NoFault
          /\ tmpDir' = [tmpDir EXCEPT ![r.callNo] =
                           Append(written, r.content[Len(written) + 1])]
          /\ UNCHANGED proc
       \/ /\ Len(written) < Len(r.content)
          /\ Fault
          /\ proc' = [proc EXCEPT ![p].pc = "defer",
                                  ![p].retErr = <<Wrap("copying reader", "EIO")>>]
          /\ UNCHANGED tmpDir
       \/ /\ Len(written) = Len(r.content)
          /\ NoFault
          /\ proc' = [proc EXCEPT ![p].pc = "close",
                                  ![p].hashHex = Sha256Hex(written)]
          /\ UNCHANGED tmpDir
    /\ UNCHANGED <<backend, callers, assetDirs, assetFiles, s3Vars, memVars, calls, histVars>>

\* tempFile.Close(); tmpWasClosed = true
LocalStoreClose(p) ==
    LET r == proc[p] IN
    /\ backend = "local" /\ r.op = "Store" /\ r.pc = "close"
    /\ \/ /\ NoFault
          /\ proc' = [proc EXCEPT ![p].pc = "stat", ![p].fdClosed = TRUE,
                                  ![p].tmpWasClosed = TRUE]
       \/ /\ Fault
          /\ proc' = [proc EXCEPT ![p].pc = "defer", ![p].fdClosed = TRUE,
                                  ![p].retErr = <<Wrap("closing temp file", "EIO")>>]
    /\ UNCHANGED <<backend, callers, storeVars, calls, histVars>>

\* os.Stat(targetPath): a nil error returns the hash at once.
LocalStoreStat(p) ==
    LET r == proc[p] IN
    /\ backend = "local" /\ r.op = "Store" /\ r.pc = "stat"
    /\ \/ /\ targetPath(r.hashHex) \in DOMAIN assetFiles
          /\ NoFault
          /\ proc' = [proc EXCEPT ![p].pc = "defer", ![p].existed = TRUE,
                                  ![p].hash = r.hashHex, ![p].retErr = Nil]
       \/ /\ targetPath(r.hashHex) \notin DOMAIN assetFiles
          /\ NoFault
          /\ proc' = [proc EXCEPT ![p].pc = "mkdir"]
       \/ /\ targetPath(r.hashHex) \in DOMAIN assetFiles
          /\ Fault
          /\ proc' = [proc EXCEPT ![p].pc = "mkdir"]
    /\ UNCHANGED <<backend, callers, storeVars, calls, histVars>>

\* os.MkdirAll(assetsPath/prefix, 0755)
LocalStoreMkdirAll(p) ==
    LET r == proc[p] IN
    /\ backend = "local" /\ r.op = "Store" /\ r.pc = "mkdir"
    /\ \/ /\ NoFault
          /\ assetDirs' = assetDirs \cup {prefixPath(r.hashHex).path}
          /\ proc' = [proc EXCEPT ![p].pc = "rename"]
       \/ /\ Fault
          /\ proc' = [proc EXCEPT ![p].pc = "defer",
                        ![p].retErr = <<Wrap("creating asset subdirectory", "EIO")>>]
          /\ UNCHANGED assetDirs
    /\ UNCHANGED <<backend, callers, tmpDir, assetFiles, s3Vars, memVars, calls, histVars>>

RenamedFileCut(data) ==
    [data |-> SubSeq(data, 1, Len(data) - 1), mode |-> TempFileMode]

\* The file os.Rename puts at the target path.
RenamedFile(data) == [data |-> data, mode |-> TempFileMode]

\* os.Rename(tempFile.Name(), targetPath); tmpWasRenamed = true
LocalStoreRename(p) ==
    LET r == proc[p] IN
    /\ backend = "local" /\ r.op = "Store" /\ r.pc = "rename"
    /\ \/ /\ prefixPath(r.hashHex).path \in assetDirs
          /\ NoFault
          /\ assetFiles' = With(assetFiles, targetPath(r.hashHex),
                                RenamedFile(tmpDir[r.callNo]))
          /\ tmpDir' = Without(tmpDir, r.callNo)
          /\ proc' = [proc EXCEPT ![p].pc = "chmod", ![p].tmpWasRenamed = TRUE]
       \/ /\ prefixPath(r.hashHex).path \notin assetDirs
          /\ NoFault
          /\ proc' = [proc EXCEPT ![p].pc = "defer",
                        ![p].retErr = <<Wrap("renaming temp file", "ENOENT")>>]
          /\ UNCHANGED <<tmpDir, assetFiles>>
       \/ /\ Fault
          /\ proc' = [proc EXCEPT ![p].pc = "defer",
                        ![p].retErr = <<Wrap("renaming temp file", "EIO")>>]
          /\ UNCHANGED <<tmpDir, assetFiles>>
    /\ UNCHANGED <<backend, callers, assetDirs, s3Vars, memVars, calls, histVars>>

\* os.Chmod(targetPath, f.TargetFileMode); return hashHex, nil
LocalStoreChmod(p) ==
    LET r == proc[p]
        t == targetPath(r.hashHex)
    IN
    /\ backend = "local" /\ r.op = "Store" /\ r.pc = "chmod"
    /\ \/ /\ t \in DOMAIN assetFiles
          /\ NoFault
          /\ assetFiles' = [assetFiles EXCEPT ![t].mode = DefaultTargetFileMode]
          /\ proc' = [proc EXCEPT ![p].pc = "defer", ![p].hash = r.hashHex,
                                  ![p].retErr = Nil]
       \/ /\ t \notin DOMAIN assetFiles
          /\ NoFault
          /\ proc' = [proc EXCEPT ![p].pc = "defer",
                        ![p].retErr = <<Wrap("setting file mode", "ENOENT")>>]
          /\ UNCHANGED assetFiles
       \/ /\ Fault
          /\ proc' = [proc EXCEPT ![p].pc = "defer",
                        ![p].retErr = <<Wrap("setting file mode", "EIO")>>]
          /\ UNCHANGED assetFiles
    /\ UNCHANGED <<backend, callers, tmpDir, assetDirs, s3Vars, memVars, calls, histVars>>

\* if !tmpWasClosed
NeedsClose(r) == ~r.tmpWasClosed

NeedsRemoveOnErrorOnly(r) == ~r.tmpWasRenamed /\ r.retErr # Nil

\* if !tmpWasRenamed
NeedsRemove(r) == ~r.tmpWasRenamed

\* The deferred function of Store (it runs on every return after
\* CreateTemp): close the staging file unless it was closed, remove it
\* unless it was renamed; a failure of either is appended to err and ends
\* the function.  Closing an *os.File a second time fails with ErrClosed.
LocalStoreDeferred(p) ==
    LET r == proc[p]
        closeErr == Wrap("closing temporary file (with previous error)",
                         IF r.fdClosed THEN "os.ErrClosed" ELSE "EIO")
        removeErr == Wrap("removing temporary file (with previous error)", "EIO")
    IN
    /\ backend = "local" /\ r.op = "Store" /\ r.pc = "defer"
    /\ \/ /\ ~NeedsClose(r) /\ ~NeedsRemove(r)
          /\ NoFault
          /\ Return(p, [r EXCEPT !.err = r.retErr])
          /\ UNCHANGED tmpDir
       \/ /\ NeedsClose(r) /\ r.fdClosed
          /\ NoFault
          /\ Return(p, [r EXCEPT !.cleanErr = <<closeErr>>,
                                 !.err = MultierrorAppend(r.retErr, closeErr)])
          /\ UNCHANGED tmpDir
       \/ /\ NeedsClose(r) /\ ~r.fdClosed
          /\ Fault
          /\ Return(p, [r EXCEPT !.fdClosed = TRUE, !.cleanErr = <<closeErr>>,
                                 !.err = MultierrorAppend(r.retErr, closeErr)])
          /\ UNCHANGED tmpDir
       \/ /\ ~NeedsClose(r) \/ ~r.fdClosed
          /\ NeedsRemove(r)
          /\ NoFault
          /\ tmpDir' = Without(tmpDir, r.callNo)
          /\ Return(p, [r EXCEPT !.fdClosed = TRUE, !.err = r.retErr])
       \/ /\ ~NeedsClose(r) \/ ~r.fdClosed
          /\ NeedsRemove(r)
          /\ Fault
          /\ Return(p, [r EXCEPT !.fdClosed = TRUE, !.cleanErr = <<removeErr>>,
                                 !.err = MultierrorAppend(r.retErr, removeErr)])
          /\ UNCHANGED tmpDir
    /\ UNCHANGED <<backend, callers, assetDirs, assetFiles, s3Vars, memVars, calls>>

\* ------------------------------------------------------------ local: Fetch
LocalFetchRaw(hash) ==
    IF targetPath(hash) \in DOMAIN assetFiles
    THEN [err |-> Nil, data |-> assetFiles[targetPath(hash)].data]
    ELSE [err |-> <<Wrap("opening file", "os.ErrNotExist")>>, data |-> << >>]

LocalFetchFlat(hash) ==
    IF <<hash>> \in DOMAIN assetFiles
    THEN [err |-> Nil, data |-> assetFiles[<<hash>>].data]
    ELSE [err |-> <<ErrNotExist>>, data |-> << >>]

\* What Fetch returns when the filesystem reports no fault: the open file
\* (its bytes), or ErrNotExist for os.ErrNotExist.
LocalFetch(hash) ==
    IF targetPath(hash) \in DOMAIN assetFiles
    THEN [err |-> Nil, data |-> assetFiles[targetPath(hash)].data]
    ELSE [err |-> <<ErrNotExist>>, data |-> << >>]

LocalFetchStep(p) ==
    LET r == proc[p] IN
    /\ backend = "local" /\ r.op = "Fetch" /\ r.pc = "start"
    /\ \/ /\ prefixPath(r.arg).err # Nil
          /\ NoFault
          /\ Return(p, [r EXCEPT !.err = prefixPath(r.arg).err])
       \/ /\ prefixPath(r.arg).err = Nil
          /\ NoFault
          /\ Return(p, [r EXCEPT !.err = LocalFetch(r.arg).err,
                                 !.data = LocalFetch(r.arg).data])
       \/ /\ prefixPath(r.arg).err = Nil
          /\ Fault
          /\ Return(p, [r EXCEPT !.err = <<Wrap("opening file", "EIO")>>])
    /\ UNCHANGED <<backend, callers, storeVars, calls>>

\* ----------------------------------------------------------- local: Remove
\* The names in a shard directory.
DirEntries(dir) == {t \in DOMAIN assetFiles : t[1] = dir}

\* os.Remove(fileName)
LocalRemoveFile(p) ==
    LET r == proc[p]
        t == targetPath(r.arg)
    IN
    /\ backend = "local" /\ r.op = "Remove" /\ r.pc = "start"
    /\ \/ /\ prefixPath(r.arg).err # Nil
          /\ NoFault
          /\ Return(p, [r EXCEPT !.err = prefixPath(r.arg).err])
          /\ UNCHANGED assetFiles
       \/ /\ prefixPath(r.arg).err = Nil
          /\ t \in DOMAIN assetFiles
          /\ NoFault
          /\ assetFiles' = Without(assetFiles, t)
          /\ proc' = [proc EXCEPT ![p].pc = "opendir"]
          /\ UNCHANGED histVars
       \/ /\ prefixPath(r.arg).err = Nil
          /\ t \notin DOMAIN assetFiles
          /\ NoFault
          /\ Return(p, [r EXCEPT !.err = <<Wrap("removing file", "os.ErrNotExist")>>])
          /\ UNCHANGED assetFiles
       \/ /\ prefixPath(r.arg).err = Nil
          /\ t \in DOMAIN assetFiles
          /\ Fault
          /\ Return(p, [r EXCEPT !.err = <<Wrap("removing file", "EIO")>>])
          /\ UNCHANGED assetFiles
    /\ UNCHANGED <<backend, callers, tmpDir, assetDirs, s3Vars, memVars, calls>>

\* os.Open(dirName)
LocalRemoveOpenDir(p) ==
    LET r == proc[p] IN
    /\ backend = "local" /\ r.op = "Remove" /\ r.pc = "opendir"
    /\ \/ /\ prefixPath(r.arg).path \in assetDirs
          /\ NoFault
          /\ proc' = [proc EXCEPT ![p].pc = "readdir"]
          /\ UNCHANGED histVars
       \/ /\ prefixPath(r.arg).path \notin assetDirs
          /\ NoFault
          /\ Return(p, [r EXCEPT !.err = <<Wrap("opening directory", "os.ErrNotExist")>>])
       \/ /\ Fault
          /\ Return(p, [r EXCEPT !.err = <<Wrap("opening directory", "EIO")>>])
    /\ UNCHANGED <<backend, callers, storeVars, calls>>

ReaddirNeverEOF(dir) == FALSE

\* dir.Readdirnames(1) returns io.EOF: the directory has no entry.
ReaddirEOF(dir) == DirEntries(dir) = {}

\* dir.Readdirnames(1): io.EOF (an empty directory) leads to its removal.
LocalRemoveReaddir(p) ==
    LET r == proc[p] IN
    /\ backend = "local" /\ r.op = "Remove" /\ r.pc = "readdir"
    /\ \/ /\ ~ReaddirEOF(prefixPath(r.arg).path)
          /\ NoFault
          /\ Return(p, r)
       \/ /\ ReaddirEOF(prefixPath(r.arg).path)
          /\ NoFault
          /\ proc' = [proc EXCEPT ![p].pc = "rmdir"]
          /\ UNCHANGED histVars
       \/ /\ Fault
          /\ Return(p, [r EXCEPT !.err = <<Wrap("reading directory", "EIO")>>])
    /\ UNCHANGED <<backend, callers, storeVars, calls>>

\* os.Remove(dirName)
LocalRemoveDir(p) ==
    LET r == proc[p]
        dir == prefixPath(r.arg).path
    IN
    /\ backend = "local" /\ r.op = "Remove" /\ r.pc = "rmdir"
    /\ \/ /\ dir \in assetDirs /\ DirEntries(dir) = {}
          /\ NoFault
          /\ assetDirs' = assetDirs \ {dir}
          /\ Return(p, r)
       \/ /\ dir \notin assetDirs
          /\ NoFault
          /\ Return(p, [r EXCEPT !.err = <<Wrap("removing empty directory", "os.ErrNotExist")>>])
          /\ UNCHANGED assetDirs
       \/ /\ dir \in assetDirs /\ DirEntries(dir) # {}
          /\ NoFault
          /\ Return(p, [r EXCEPT !.err = <<Wrap("removing empty directory", "ENOTEMPTY")>>])
          /\ UNCHANGED assetDirs
       \/ /\ Fault
          /\ Return(p, [r EXCEPT !.err = <<Wrap("removing empty directory", "EIO")>>])
          /\ UNCHANGED assetDirs
    /\ UNCHANGED <<backend, callers, tmpDir, assetFiles, s3Vars, memVars, calls>>

\* ---------------------------------------------------------- Iterate, shared
\* The error the callback of the caller returns when it fails.
CallbackErr == Wrap("", "callback error")

CallbackErrorDropped(r, hs) == [r EXCEPT !.batches = Append(r.batches, hs)]

\* callback(hashes): the callback keeps the batch it is given; its
\* failAt-th invocation returns an error (failAt = 0: it never fails).  A
\* collecting callback goes on to call Remove for every hash of the batch
\* before it returns: the Iterate waits at "callback" and resumes after.
\* In batches are the hashes of each batch as they were at its delivery;
\* in kept are the slices themselves, which the callback holds without
\* copying them: each shares the backing array of hashes (alias) until
\* hashes gets a new one, and then keeps what the old array held (val).
Callback(r, hs) ==
    LET bs == Append(r.batches, hs)
        ks == Append(r.kept, [len |-> Len(hs), alias |-> TRUE, val |-> << >>])
    IN
    IF r.collect
    THEN [r EXCEPT !.batches = bs, !.kept = ks, !.pending = hs,
                   !.resume = r.pc, !.pc = "callback"]
    ELSE [r EXCEPT !.batches = bs, !.kept = ks,
                   !.err = IF Len(bs) = r.failAt THEN <<CallbackErr>> ELSE r.err]

\* hashes = append(hashes, name): while the capacity of the backing array
\* lasts the name is written into it, in the place after the last of
\* hashes; else hashes moves to a new array (of sufficient capacity), and
\* the slices kept of the old one keep what it held.
GoAppend(r, name) ==
    LET n == Len(r.hashes) IN
    IF n < Len(r.array)
    THEN [r EXCEPT !.hashes = Append(r.hashes, name),
                   !.array = [i \in 1 .. Len(r.array) |->
                                IF i = n + 1 THEN name ELSE r.array[i]]]
    ELSE [r EXCEPT !.hashes = Append(r.hashes, name),
                   !.array = Append(r.hashes, name),
                   !.kept = [i \in DOMAIN r.kept |->
                               IF r.kept[i].alias
                               THEN [r.kept[i] EXCEPT
                                       !.alias = FALSE,
                                       !.val = SubSeq(r.array, 1, r.kept[i].len)]
                               ELSE r.kept[i]]]

\* What the slices the callback kept show now.
KeptBatches(r) ==
    [i \in DOMAIN r.kept |->
       IF r.kept[i].alias THEN SubSeq(r.array, 1, r.kept[i].len)
       ELSE r.kept[i].val]

\* hashes = append(hashes, name); a full batch goes to the callback and the
\* slice is reset.
Visit(r, name) ==
    LET a == GoAppend(r, name) IN
    IF Len(a.hashes) = r.maxBatch
    THEN [Callback(a, a.hashes) EXCEPT !.hashes = << >>]
    ELSE a

FlushNothing(r) == r

\* After the walk: the remaining hashes go to the callback.
Flush(r) ==
    IF Len(r.hashes) > 0
    THEN Callback(r, r.hashes)
    ELSE r

\* ---------------------------------------------------------- local: Iterate
\* filepath.Walk reads the names of the assets directory, sorted.
LocalIterateRoot(p) ==
    LET r == proc[p] IN
    /\ backend = "local" /\ r.op = "Iterate" /\ r.pc = "start"
    /\ \/ /\ NoFault
          /\ proc' = [proc EXCEPT ![p].pc = "walk",
                                  ![p].todoDirs = SortedNames(assetDirs)]
          /\ UNCHANGED histVars
       \/ /\ Fault
          /\ Return(p, [r EXCEPT !.err = <<Wrap("", "EIO")>>])
    /\ UNCHANGED <<backend, callers, storeVars, calls>>

\* The walk comes to a shard directory: lstat, the callback skips it as a
\* directory, then its names are read, sorted.  A failed lstat or read is
\* handed to the walk function, which returns it.
LocalIterateDir(p) ==
    LET r == proc[p]
        dir == Head(r.todoDirs)
    IN
    /\ backend = "local" /\ r.op = "Iterate" /\ r.pc = "walk"
    /\ r.todo = << >> /\ r.todoDirs # << >>
    /\ \/ /\ dir \in assetDirs
          /\ NoFault
          /\ proc' = [proc EXCEPT ![p].todoDirs = Tail(r.todoDirs),
                        ![p].todo = SortedNames({t[2] : t \in DirEntries(dir)})]
          /\ UNCHANGED histVars
       \/ /\ dir \notin assetDirs
          /\ NoFault
          /\ Return(p, [r EXCEPT !.err = <<Wrap("", "os.ErrNotExist")>>])
       \/ /\ dir \in assetDirs
          /\ Fault
          /\ Return(p, [r EXCEPT !.err = <<Wrap("", "EIO")>>])
    /\ UNCHANGED <<backend, callers, storeVars, calls>>

\* The walk comes to a file: lstat, then the callback of filepath.Walk.
LocalIterateFile(p) ==
    LET r == proc[p]
        name == Head(r.todo)
    IN
    /\ backend = "local" /\ r.op = "Iterate" /\ r.pc = "walk"
    /\ r.todo # << >>
    /\ NoFault
    /\ \/ /\ targetPath(name) \in DOMAIN assetFiles
          /\ LET v == Visit(r, name) IN
               IF v.err = Nil
               THEN /\ proc' = [proc EXCEPT ![p] = [v EXCEPT !.todo = Tail(r.todo)]]
                    /\ UNCHANGED histVars
               ELSE Return(p, v)
       \/ /\ targetPath(name) \notin DOMAIN assetFiles
          /\ Return(p, [r EXCEPT !.err = <<Wrap("", "os.ErrNotExist")>>])
    /\ UNCHANGED <<backend, callers, storeVars, calls>>

\* The walk is over.
LocalIterateEnd(p) ==
    LET r == proc[p] IN
    /\ backend = "local" /\ r.op = "Iterate" /\ r.pc = "walk"
    /\ r.todo = << >> /\ r.todoDirs = << >>
    /\ NoFault
    /\ IF Flush(r).pc = "callback"
       THEN /\ proc' = [proc EXCEPT ![p] = [Flush(r) EXCEPT !.resume = "return"]]
            /\ UNCHANGED histVars
       ELSE Return(p, Flush(r))
    /\ UNCHANGED <<backend, callers, storeVars, calls>>

\* ------------------------------------------------------------ s3: context
\* context.Canceled
Canceled == Wrap("", "context.Canceled")

\* The context of the call is not done: the requests of the call are sent.
Live(r) == ~r.ctxDone

\* The context the failing-request error of an operation is wrapped with.
RequestContext(op) ==
    CASE op = "Store"       -> "putting temp object"
      [] op = "StoreHashed" -> "putting object"
      [] op = "Fetch"       -> "getting object info"
      [] op = "Exists"      -> "getting object info"
      [] op = "Remove"      -> "removing object"
      [] op = "Size"        -> "statting object"
      [] op = "Iterate"     -> "listing objects"

\* The context handed to the minio client is done: the request of the call
\* (for StoreHashed the probe and then the upload) fails with the context's
\* error, which the operation returns wrapped.
S3Cancelled(p) ==
    LET r == proc[p] IN
    /\ backend = "s3" /\ r.pc = "start" /\ ~Live(r)
    /\ Return(p, [r EXCEPT !.err = <<Wrap(RequestContext(r.op),
                                          "context.Canceled")>>])
    /\ UNCHANGED <<backend, callers, storeVars, calls, faults>>

\* --------------------------------------------------------------- s3: keys
DigitChars == <<"1", "2", "3", "4", "5", "6", "7", "8", "9">>

tmpObjectNameShared(callNo) == <<"t", "m", "p", "/", "1">>

\* fmt.Sprintf("tmp/%s", tmpID): the staging key of a call; uuid.NewV4
\* gives every call its own id.
tmpObjectName(callNo) == <<"t", "m", "p", "/", DigitChars[callNo]>>

\* The part of a key up to and including its first "/", or << >>.
RECURSIVE CommonPrefix(_)
CommonPrefix(key) ==
    IF key = << >> THEN << >>
    ELSE IF Head(key) = "/" THEN <<"/">>
    ELSE LET rest == CommonPrefix(Tail(key))
         IN  IF rest = << >> THEN << >> ELSE <<Head(key)>> \o rest

\* Client.ListObjects with the zero ListObjectsOptions (not recursive, so
\* delimiter "/"): the keys without a "/" in key order, then one entry per
\* common prefix, its Key being the prefix.
ListObjects ==
    SortedNames({k \in DOMAIN bucket : CommonPrefix(k) = << >>})
    \o SortedNames({CommonPrefix(k) : k \in DOMAIN bucket} \ {<< >>})

\* --------------------------------------------------------------- s3: Store
\* uuid.NewV4, then Client.PutObject under the staging key while the digest
\* reads along.  An object is visible under its key only when the upload is
\* complete.
S3StorePut(p) ==
    LET r == proc[p] IN
    /\ backend = "s3" /\ r.op = "Store" /\ r.pc = "start" /\ Live(r)
    /\ \/ /\ NoFault
          /\ bucket' = With(bucket, tmpObjectName(r.callNo), r.content)
          /\ proc' = [proc EXCEPT ![p].pc = "copy",
                                  ![p].hashHex = Sha256Hex(r.content)]
          /\ UNCHANGED histVars
       \/ /\ Fault
          /\ Return(p, [r EXCEPT !.err = <<Wrap("generating temp id", "EIO")>>])
          /\ UNCHANGED bucket
       \/ /\ Fault
          /\ Return(p, [r EXCEPT !.err = <<Wrap("putting temp object", "EIO")>>])
          /\ UNCHANGED bucket
    /\ UNCHANGED <<backend, callers, localVars, memVars, calls>>

\* Client.CopyObject from the staging key to the hash key.
S3StoreCopy(p) ==
    LET r == proc[p] IN
    /\ backend = "s3" /\ r.op = "Store" /\ r.pc = "copy"
    /\ \/ /\ tmpObjectName(r.callNo) \in DOMAIN bucket
          /\ NoFault
          /\ bucket' = With(bucket, r.hashHex, bucket[tmpObjectName(r.callNo)])
          /\ proc' = [proc EXCEPT ![p].pc = "del"]
          /\ UNCHANGED histVars
       \/ /\ tmpObjectName(r.callNo) \notin DOMAIN bucket
          /\ NoFault
          /\ Return(p, [r EXCEPT !.err = <<Wrap("copying temp object", "NoSuchKey")>>])
          /\ UNCHANGED bucket
       \/ /\ Fault
          /\ Return(p, [r EXCEPT !.err = <<Wrap("copying temp object", "EIO")>>])
          /\ UNCHANGED bucket
    /\ UNCHANGED <<backend, callers, localVars, memVars, calls>>

\* Client.RemoveObject of the staging key; return hashHex, nil
S3StoreRemoveTmp(p) ==
    LET r == proc[p] IN
    /\ backend = "s3" /\ r.op = "Store" /\ r.pc = "del"
    /\ \/ /\ NoFault
          /\ bucket' = Without(bucket, tmpObjectName(r.callNo))
          /\ Return(p, [r EXCEPT !.hash = r.hashHex])
       \/ /\ Fault
          /\ Return(p, [r EXCEPT !.err = <<Wrap("removing temp object", "EIO")>>])
          /\ UNCHANGED bucket
    /\ UNCHANGED <<backend, callers, localVars, memVars, calls>>

\* --------------------------------------------------------------- s3: Fetch
\* What Fetch returns when the request itself does not fail: the object, or
\* ErrNotExist for the response code NoSuchKey.
S3Fetch(hash) ==
    IF hash \in DOMAIN bucket
    THEN [err |-> Nil, data |-> bucket[hash]]
    ELSE [err |-> <<ErrNotExist>>, data |-> << >>]

S3FetchStep(p) ==
    LET r == proc[p] IN
    /\ backend = "s3" /\ r.op = "Fetch" /\ r.pc = "start" /\ Live(r)
    /\ \/ /\ NoFault
          /\ Return(p, [r EXCEPT !.err = S3Fetch(r.arg).err,
                                 !.data = S3Fetch(r.arg).data])
       \/ /\ Fault
          /\ Return(p, [r EXCEPT !.err = <<Wrap("getting object info", "EIO")>>])
    /\ UNCHANGED <<backend, callers, storeVars, calls>>

\* -------------------------------------------------------------- s3: Remove
\* Client.RemoveObject: the object store answers a delete of a missing key
\* like the delete of a present one.
S3RemoveStep(p) ==
    LET r == proc[p] IN
    /\ backend = "s3" /\ r.op = "Remove" /\ r.pc = "start" /\ Live(r)
    /\ \/ /\ NoFault
          /\ bucket' = Without(bucket, r.arg)
          /\ Return(p, r)
       \/ /\ Fault
          /\ Return(p, [r EXCEPT !.err = <<Wrap("removing object", "EIO")>>])
          /\ UNCHANGED bucket
    /\ UNCHANGED <<backend, callers, localVars, memVars, calls>>

\* ------------------------------------------------------------- s3: Iterate
\* The listing is requested (one page holds every key of the model).
S3IterateList(p) ==
    LET r == proc[p] IN
    /\ backend = "s3" /\ r.op = "Iterate" /\ r.pc = "start" /\ Live(r)
    /\ \/ /\ NoFault
          /\ proc' = [proc EXCEPT ![p].pc = "walk", ![p].todo = ListObjects]
          /\ UNCHANGED histVars
       \/ /\ Fault
          /\ Return(p, [r EXCEPT !.err = <<Wrap("listing objects", "EIO")>>])
    /\ UNCHANGED <<backend, callers, storeVars, calls>>

\* for objInfo := range objInfos
S3IterateNext(p) ==
    LET r == proc[p] IN
    /\ backend = "s3" /\ r.op = "Iterate" /\ r.pc = "walk"
    /\ r.todo # << >>
    /\ LET v == Visit(r, Head(r.todo)) IN
         IF v.err = Nil
         THEN /\ proc' = [proc EXCEPT ![p] = [v EXCEPT !.todo = Tail(r.todo)]]
              /\ UNCHANGED histVars
         ELSE Return(p, v)
    /\ UNCHANGED <<backend, callers, storeVars, calls, faults>>

S3IterateEnd(p) ==
    LET r == proc[p] IN
    /\ backend = "s3" /\ r.op = "Iterate" /\ r.pc = "walk"
    /\ r.todo = << >>
    /\ IF Flush(r).pc = "callback"
       THEN /\ proc' = [proc EXCEPT ![p] = [Flush(r) EXCEPT !.resume = "return"]]
            /\ UNCHANGED histVars
       ELSE Return(p, Flush(r))
    /\ UNCHANGED <<backend, callers, storeVars, calls, faults>>

\* ------------------------------------------------------------ memory: lock
\* A write lock that does not wait for the readers.
CanLockAmongReaders == ~mx.writer

\* sync.RWMutex: Lock returns when no writer and no reader holds the lock.
CanLock == ~mx.writer /\ mx.readers = 0

\* sync.RWMutex: RLock returns when no writer holds the lock.
CanRLock == ~mx.writer

\* f.mx.Lock()
MemLock(p) ==
    LET r == proc[p] IN
    /\ backend = "memory" /\ r.op \in {"Store", "StoreHashed", "Remove"}
    /\ r.pc = "start"
    /\ CanLock
    /\ mx' = [mx EXCEPT !.writer = TRUE]
    /\ proc' = [proc EXCEPT ![p].pc = "locked"]
    /\ UNCHANGED <<backend, callers, localVars, s3Vars, files, calls, faults, histVars>>

\* f.mx.RLock()
MemRLock(p) ==
    LET r == proc[p] IN
    /\ backend = "memory" /\ r.op \in {"Fetch", "Exists", "Size", "Iterate"}
    /\ r.pc = "start"
    /\ CanRLock
    /\ mx' = [mx EXCEPT !.readers = mx.readers + 1]
    /\ \E order \in {o \in [1 .. Cardinality(DOMAIN files) -> DOMAIN files] :
                        Range(o) = DOMAIN files} :
          proc' = [proc EXCEPT ![p].pc = "rlocked",
                               ![p].todo = IF r.op = "Iterate" THEN order ELSE << >>]
    /\ UNCHANGED <<backend, callers, localVars, s3Vars, files, calls, faults, histVars>>

\* ------------------------------------------------------------ memory: Store
\* io.ReadAll, the digest, f.files[hash] = data; the deferred Unlock.
MemStoreBody(p) ==
    LET r == proc[p] IN
    /\ backend = "memory" /\ r.op = "Store" /\ r.pc = "locked"
    /\ \/ /\ NoFault
          /\ files' = With(files, Sha256Hex(r.content), r.content)
          /\ Return(p, [r EXCEPT !.hash = Sha256Hex(r.content)])
       \/ /\ Fault
          /\ Return(p, [r EXCEPT !.err = <<Wrap("", "EIO")>>])
          /\ UNCHANGED files
    /\ mx' = [mx EXCEPT !.writer = FALSE]
    /\ UNCHANGED <<backend, callers, localVars, s3Vars, calls>>

\* ------------------------------------------------------------ memory: Fetch
MemFetch(hash) ==
    IF hash \in DOMAIN files
    THEN [err |-> Nil, data |-> files[hash]]
    ELSE [err |-> <<ErrNotExist>>, data |-> << >>]

MemFetchBody(p) ==
    LET r == proc[p] IN
    /\ backend = "memory" /\ r.op = "Fetch" /\ r.pc = "rlocked"
    /\ Return(p, [r EXCEPT !.err = MemFetch(r.arg).err,
                           !.data = MemFetch(r.arg).data])
    /\ mx' = [mx EXCEPT !.readers = mx.readers - 1]
    /\ UNCHANGED <<backend, callers, localVars, s3Vars, files, calls, faults>>

\* ----------------------------------------------------------- memory: Remove
MemRemoveBody(p) ==
    LET r == proc[p] IN
    /\ backend = "memory" /\ r.op = "Remove" /\ r.pc = "locked"
    /\ \/ /\ r.arg \notin DOMAIN files
          /\ Return(p, [r EXCEPT !.err = <<ErrNotExist>>])
          /\ UNCHANGED files
       \/ /\ r.arg \in DOMAIN files
          /\ files' = Without(files, r.arg)
          /\ Return(p, r)
    /\ mx' = [mx EXCEPT !.writer = FALSE]
    /\ UNCHANGED <<backend, callers, localVars, s3Vars, calls, faults>>

\* ---------------------------------------------------------- memory: Iterate
\* for hash := range f.files, in the order the map happens to give.
MemIterateNext(p) ==
    LET r == proc[p] IN
    /\ backend = "memory" /\ r.op = "Iterate" /\ r.pc = "rlocked"
    /\ r.todo # << >>
    /\ LET v == Visit(r, Head(r.todo)) IN
         IF v.err = Nil
         THEN /\ proc' = [proc EXCEPT ![p] = [v EXCEPT !.todo = Tail(r.todo)]]
              /\ UNCHANGED <<histVars, mx>>
         ELSE /\ Return(p, v)
              /\ mx' = [mx EXCEPT !.readers = mx.readers - 1]
    /\ UNCHANGED <<backend, callers, localVars, s3Vars, files, calls, faults>>

\* The last callback and the deferred RUnlock.
MemIterateEnd(p) ==
    LET r == proc[p] IN
    /\ backend = "memory" /\ r.op = "Iterate" /\ r.pc = "rlocked"
    /\ r.todo = << >>
    /\ IF Flush(r).pc = "callback"
       THEN /\ proc' = [proc EXCEPT ![p] = [Flush(r) EXCEPT !.resume = "return"]]
            /\ UNCHANGED <<histVars, mx>>
       ELSE /\ Return(p, Flush(r))
            /\ mx' = [mx EXCEPT !.readers = mx.readers - 1]
    /\ UNCHANGED <<backend, callers, localVars, s3Vars, files, calls, faults>>

\* ------------------------------------------------- the collecting callback
\* The caller whose record holds the calls a callback makes: they run in
\* the goroutine of the Iterate, one after the other.
Nested(p) == IF p = 1 THEN 2 ELSE 1

\* for _, hash := range hashes { err := store.Remove(ctx, hash) ... }: the
\* callback calls Remove for the next hash of its batch.
CallbackRemove(p) ==
    LET r == proc[p]
        h == Head(r.pending)
    IN
    /\ r.op = "Iterate" /\ r.pc = "callback"
    /\ r.pending # << >>
    /\ ~Busy(Nested(p))
    /\ ~(proc[Nested(p)].pc = "done" /\ proc[Nested(p)].err # Nil)
    /\ proc' = [proc EXCEPT ![p].pending = Tail(r.pending),
                            ![Nested(p)] = [NoCall EXCEPT !.pc = "start",
                                                          !.op = "Remove",
                                                          !.arg = h]]
    /\ expect' = IF h \in Hashes /\ expect[h] # "mismatched"
                 THEN [expect EXCEPT ![h] = "unknown"] ELSE expect
    /\ UNCHANGED <<backend, callers, storeVars, calls, faults, overlap, failed>>

\* The callback returns, with the error of a Remove that failed or with
\* nil after the last one, and the Iterate goes on: to its next entry, or,
\* after the last batch or an error, to its return (with the deferred
\* RUnlock of the in-memory store).
CallbackReturn(p) ==
    LET r == proc[p]
        n == proc[Nested(p)]
        err == IF n.pc = "done" THEN n.err ELSE Nil
        back == [r EXCEPT !.pc = r.resume, !.pending = << >>, !.resume = "",
                          !.err = err]
    IN
    /\ r.op = "Iterate" /\ r.pc = "callback"
    /\ ~Busy(Nested(p))
    /\ r.pending = << >> \/ err # Nil
    /\ IF r.resume = "return" \/ err # Nil
       THEN /\ proc' = [proc EXCEPT ![p] = Result(back), ![Nested(p)] = NoCall]
            /\ mx' = IF backend = "memory"
                     THEN [mx EXCEPT !.readers = mx.readers - 1] ELSE mx
       ELSE /\ proc' = [proc EXCEPT ![p] = back, ![Nested(p)] = NoCall]
            /\ UNCHANGED mx
    /\ UNCHANGED <<backend, callers, localVars, s3Vars, files, calls, faults,
                   histVars>>

\* ============================================ StoreHashed, Exists and Size
\* In the records of a StoreHashed call, existed and data note what was
\* under the hash when the call probed for it (whatever the probe answered).

\* ----------------------------------------------------- local: StoreHashed
\* Local StoreHashed, as the store contract words it: nothing happens when
\* an object under the hash exists; otherwise the bytes are put under the
\* hash, whatever their digest, or the call fails and leaves nothing.
LocalStoreHashedStep(p) ==
    LET r == proc[p]
        t == targetPath(r.arg)
    IN
    /\ backend = "local" /\ r.op = "StoreHashed" /\ r.pc = "start"
    /\ \/ /\ t \in DOMAIN assetFiles
          /\ NoFault
          /\ Return(p, [r EXCEPT !.existed = TRUE, !.data = assetFiles[t].data])
          /\ UNCHANGED <<assetDirs, assetFiles>>
       \/ /\ t \notin DOMAIN assetFiles
          /\ NoFault
          /\ assetDirs' = assetDirs \cup {prefixPath(r.arg).path}
          /\ assetFiles' = With(assetFiles, t,
                                [data |-> r.content, mode |-> DefaultTargetFileMode])
          /\ Return(p, r)
       \/ /\ t \notin DOMAIN assetFiles
          /\ Fault
          /\ Return(p, [r EXCEPT !.err = <<Wrap("storing file", "EIO")>>])
          /\ UNCHANGED <<assetDirs, assetFiles>>
    /\ UNCHANGED <<backend, callers, tmpDir, s3Vars, memVars, calls>>

\* ---------------------------------------------------------- local: Exists
\* Local Exists, as the store contract words it: an existence probe.
LocalExists(hash) == targetPath(hash) \in DOMAIN assetFiles

LocalExistsStep(p) ==
    LET r == proc[p] IN
    /\ backend = "local" /\ r.op = "Exists" /\ r.pc = "start"
    /\ NoFault
    /\ Return(p, [r EXCEPT !.ok = LocalExists(r.arg)])
    /\ UNCHANGED <<backend, callers, storeVars, calls>>

\* ------------------------------------------------------------ local: Size
\* What Size returns when the filesystem reports no fault: stat.Size(), or
\* the error of os.Stat as it is.
LocalSize(hash) ==
    IF targetPath(hash) \in DOMAIN assetFiles
    THEN [err |-> Nil, size |-> Len(assetFiles[targetPath(hash)].data)]
    ELSE [err |-> <<Wrap("", "os.ErrNotExist")>>, size |-> 0]

LocalSizeStep(p) ==
    LET r == proc[p] IN
    /\ backend = "local" /\ r.op = "Size" /\ r.pc = "start"
    /\ \/ /\ prefixPath(r.arg).err # Nil
          /\ NoFault
          /\ Return(p, [r EXCEPT !.err = prefixPath(r.arg).err])
       \/ /\ prefixPath(r.arg).err = Nil
          /\ NoFault
          /\ Return(p, [r EXCEPT !.err = LocalSize(r.arg).err,
                                 !.size = LocalSize(r.arg).size])
       \/ /\ prefixPath(r.arg).err = Nil
          /\ Fault
          /\ Return(p, [r EXCEPT !.err = <<Wrap("", "EIO")>>])
    /\ UNCHANGED <<backend, callers, storeVars, calls>>

\* --------------------------------------------------------- s3: StoreHashed
\* Client.StatObject: with err == nil the object exists and the call
\* returns nil; with any error, the missing key or another one, the call
\* goes on to the upload.
S3StoreHashedStat(p) ==
    LET r == proc[p]
        seen == [r EXCEPT !.existed = r.arg \in DOMAIN bucket,
                          !.data = IF r.arg \in DOMAIN bucket
                                   THEN bucket[r.arg] ELSE << >>]
    IN
    /\ backend = "s3" /\ r.op = "StoreHashed" /\ r.pc = "start" /\ Live(r)
    /\ \/ /\ r.arg \in DOMAIN bucket
          /\ NoFault
          /\ Return(p, seen)
       \/ /\ r.arg \notin DOMAIN bucket
          /\ NoFault
          /\ proc' = [proc EXCEPT ![p] = [seen EXCEPT !.pc = "put"]]
          /\ UNCHANGED histVars
       \/ /\ Fault
          /\ proc' = [proc EXCEPT ![p] = [seen EXCEPT !.pc = "put"]]
          /\ UNCHANGED histVars
    /\ UNCHANGED <<backend, callers, storeVars, calls>>

\* Client.PutObject under the hash key.
S3StoreHashedPut(p) ==
    LET r == proc[p] IN
    /\ backend = "s3" /\ r.op = "StoreHashed" /\ r.pc = "put"
    /\ \/ /\ NoFault
          /\ bucket' = With(bucket, r.arg, r.content)
          /\ Return(p, r)
       \/ /\ Fault
          /\ Return(p, [r EXCEPT !.err = <<Wrap("putting object", "EIO")>>])
          /\ UNCHANGED bucket
    /\ UNCHANGED <<backend, callers, localVars, memVars, calls>>

\* -------------------------------------------------------------- s3: Exists
S3ExistsAlways(hash) == TRUE

\* Client.StatObject without a failing request: NoSuchKey gives false.
S3Exists(hash) == hash \in DOMAIN bucket

S3ExistsStep(p) ==
    LET r == proc[p] IN
    /\ backend = "s3" /\ r.op = "Exists" /\ r.pc = "start" /\ Live(r)
    /\ \/ /\ NoFault
          /\ Return(p, [r EXCEPT !.ok = S3Exists(r.arg)])
       \/ /\ Fault
          /\ Return(p, [r EXCEPT !.err = <<Wrap("getting object info", "EIO")>>])
    /\ UNCHANGED <<backend, callers, storeVars, calls>>

\* ---------------------------------------------------------------- s3: Size
\* Client.GetObject and object.Stat without a failing request: stat.Size,
\* or the error response of the missing key, wrapped.
S3Size(hash) ==
    IF hash \in DOMAIN bucket
    THEN [err |-> Nil, size |-> Len(bucket[hash])]
    ELSE [err |-> <<Wrap("statting object", "NoSuchKey")>>, size |-> 0]

S3SizeStep(p) ==
    LET r == proc[p] IN
    /\ backend = "s3" /\ r.op = "Size" /\ r.pc = "start" /\ Live(r)
    /\ \/ /\ NoFault
          /\ Return(p, [r EXCEPT !.err = S3Size(r.arg).err,
                                 !.size = S3Size(r.arg).size])
       \/ /\ Fault
          /\ Return(p, [r EXCEPT !.err = <<Wrap("statting object", "EIO")>>])
    /\ UNCHANGED <<backend, callers, storeVars, calls>>

\* ----------------------------------------------------- memory: StoreHashed
\* Under the lock: return nil when the hash is in the map, else io.ReadAll
\* and f.files[hash] = data; the deferred Unlock.
MemStoreHashedBody(p) ==
    LET r == proc[p] IN
    /\ backend = "memory" /\ r.op = "StoreHashed" /\ r.pc = "locked"
    /\ \/ /\ r.arg \in DOMAIN files
          /\ NoFault
          /\ Return(p, [r EXCEPT !.existed = TRUE, !.data = files[r.arg]])
          /\ UNCHANGED files
       \/ /\ r.arg \notin DOMAIN files
          /\ NoFault
          /\ files' = With(files, r.arg, r.content)
          /\ Return(p, r)
       \/ /\ r.arg \notin DOMAIN files
          /\ Fault
          /\ Return(p, [r EXCEPT !.err = <<Wrap("", "EIO")>>])
          /\ UNCHANGED files
    /\ mx' = [mx EXCEPT !.writer = FALSE]
    /\ UNCHANGED <<backend, callers, localVars, s3Vars, calls>>

\* ---------------------------------------------------------- memory: Exists
MemExists(hash) == hash \in DOMAIN files

MemExistsBody(p) ==
    LET r == proc[p] IN
    /\ backend = "memory" /\ r.op = "Exists" /\ r.pc = "rlocked"
    /\ Return(p, [r EXCEPT !.ok = MemExists(r.arg)])
    /\ mx' = [mx EXCEPT !.readers = mx.readers - 1]
    /\ UNCHANGED <<backend, callers, localVars, s3Vars, files, calls, faults>>

\* ------------------------------------------------------------ memory: Size
MemSizeOfHash(hash) ==
    IF hash \in DOMAIN files
    THEN [err |-> Nil, size |-> Len(hash)]
    ELSE [err |-> <<ErrNotExist>>, size |-> 0]

\* int64(len(data)), or ErrNotExist
MemSize(hash) ==
    IF hash \in DOMAIN files
    THEN [err |-> Nil, size |-> Len(files[hash])]
    ELSE [err |-> <<ErrNotExist>>, size |-> 0]

MemSizeBody(p) ==
    LET r == proc[p] IN
    /\ backend = "memory" /\ r.op = "Size" /\ r.pc = "rlocked"
    /\ Return(p, [r EXCEPT !.err = MemSize(r.arg).err,
                           !.size = MemSize(r.arg).size])
    /\ mx' = [mx EXCEPT !.readers = mx.readers - 1]
    /\ UNCHANGED <<backend, callers, localVars, s3Vars, files, calls, faults>>

\* ------------------------------------------------------------ the contract
\* Exists and Size of the backend in use.
Exists(hash) ==
    CASE backend = "local"  -> LocalExists(hash)
      [] backend = "s3"     -> S3Exists(hash)
      [] backend = "memory" -> MemExists(hash)

Size(hash) ==
    CASE backend = "local"  -> LocalSize(hash)
      [] backend = "s3"     -> S3Size(hash)
      [] backend = "memory" -> MemSize(hash)

\* ------------------------------------------------------------ the locators
\* f.BucketName
BucketName == <<"b">>

\* local ImgproxyURLSource: fmt.Sprintf("local:///%s/%s", prefixPath, hash)
LocalImgproxyURLSource(hash) ==
    IF prefixPath(hash).err # Nil
    THEN [url |-> << >>, err |-> prefixPath(hash).err]
    ELSE [url |-> <<"local:///">> \o prefixPath(hash).path \o <<"/">> \o hash,
          err |-> Nil]

\* A locator of the bucket that checks the length as the local one does.
S3ImgproxyURLSourceChecked(hash) ==
    IF prefixPath(hash).err # Nil
    THEN [url |-> << >>, err |-> prefixPath(hash).err]
    ELSE [url |-> <<"s3://">> \o BucketName \o <<"/">> \o hash, err |-> Nil]

\* s3 ImgproxyURLSource: fmt.Sprintf("s3://%s/%s", f.BucketName, hash)
S3ImgproxyURLSource(hash) ==
    [url |-> <<"s3://">> \o BucketName \o <<"/">> \o hash, err |-> Nil]

\* memory ImgproxyURLSource: "memory://" + hash
MemImgproxyURLSource(hash) ==
    [url |-> <<"memory://">> \o hash, err |-> Nil]

ImgproxyURLSource(hash) ==
    CASE backend = "local"  -> LocalImgproxyURLSource(hash)
      [] backend = "s3"     -> S3ImgproxyURLSource(hash)
      [] backend = "memory" -> MemImgproxyURLSource(hash)

\* The call of ImgproxyURLSource: no file, request or lock is involved.
ImgproxyURLSourceStep(p) ==
    LET r == proc[p] IN
    /\ r.op = "ImgproxyURLSource" /\ r.pc = "start"
    /\ Return(p, [r EXCEPT !.url = ImgproxyURLSource(r.arg).url,
                           !.err = ImgproxyURLSource(r.arg).err])
    /\ UNCHANGED <<backend, callers, storeVars, calls, faults>>

\* Fetch of the backend in use.
Fetch(hash) ==
    CASE backend = "local"  -> LocalFetch(hash)
      [] backend = "s3"     -> S3Fetch(hash)
      [] backend = "memory" -> MemFetch(hash)

Next ==
    \E p \in Procs :
        \/ CallStore(p)
        \/ CallRemove(p)
        \/ CallFetch(p)
        \/ CallIterate(p)
        \/ LocalStoreCreateTemp(p)
        \/ LocalStoreCopy(p)
        \/ LocalStoreClose(p)
        \/ LocalStoreStat(p)
        \/ LocalStoreMkdirAll(p)
        \/ LocalStoreRename(p)
        \/ LocalStoreChmod(p)
        \/ LocalStoreDeferred(p)
        \/ LocalFetchStep(p)
        \/ LocalRemoveFile(p)
        \/ LocalRemoveOpenDir(p)
        \/ LocalRemoveReaddir(p)
        \/ LocalRemoveDir(p)
        \/ LocalIterateRoot(p)
        \/ LocalIterateDir(p)
        \/ LocalIterateFile(p)
        \/ LocalIterateEnd(p)
        \/ S3StorePut(p)
        \/ S3StoreCopy(p)
        \/ S3StoreRemoveTmp(p)
        \/ S3FetchStep(p)
        \/ S3RemoveStep(p)
        \/ S3IterateList(p)
        \/ S3IterateNext(p)
        \/ S3IterateEnd(p)
        \/ MemLock(p)
        \/ MemRLock(p)
        \/ MemStoreBody(p)
        \/ MemFetchBody(p)
        \/ MemRemoveBody(p)
        \/ MemIterateNext(p)
        \/ MemIterateEnd(p)

Spec == Init /\ [][Next]_vars

\* Stores, then Iterates whose callback may fail.
NextIterate ==
    \E p \in Procs :
        \/ CallStoreBefore(p)
        \/ CallIterateFailing(p)
        \/ LocalStoreCreateTemp(p)
        \/ LocalStoreCopy(p)
        \/ LocalStoreClose(p)
        \/ LocalStoreStat(p)
        \/ LocalStoreMkdirAll(p)
        \/ LocalStoreRename(p)
        \/ LocalStoreChmod(p)
        \/ LocalStoreDeferred(p)
        \/ LocalIterateRoot(p)
        \/ LocalIterateDir(p)
        \/ LocalIterateFile(p)
        \/ LocalIterateEnd(p)
        \/ S3StorePut(p)
        \/ S3StoreCopy(p)
        \/ S3StoreRemoveTmp(p)
        \/ S3IterateList(p)
        \/ S3IterateNext(p)
        \/ S3IterateEnd(p)
        \/ MemLock(p)
        \/ MemRLock(p)
        \/ MemStoreBody(p)
        \/ MemIterateNext(p)
        \/ MemIterateEnd(p)

SpecIterate == Init /\ [][NextIterate]_vars

\* Store, StoreHashed, Remove, Fetch, Exists and Size, one call after the
\* other.
NextHashed ==
    \E p \in Procs :
        \/ HashedStore(p)
        \/ CallStoreHashed(p)
        \/ HashedRemove(p)
        \/ HashedFetch(p)
        \/ CallExists(p)
        \/ CallSize(p)
        \/ LocalStoreCreateTemp(p)
        \/ LocalStoreCopy(p)
        \/ LocalStoreClose(p)
        \/ LocalStoreStat(p)
        \/ LocalStoreMkdirAll(p)
        \/ LocalStoreRename(p)
        \/ LocalStoreChmod(p)
        \/ LocalStoreDeferred(p)
        \/ LocalStoreHashedStep(p)
        \/ LocalFetchStep(p)
        \/ LocalExistsStep(p)
        \/ LocalSizeStep(p)
        \/ LocalRemoveFile(p)
        \/ LocalRemoveOpenDir(p)
        \/ LocalRemoveReaddir(p)
        \/ LocalRemoveDir(p)
        \/ S3StorePut(p)
        \/ S3StoreCopy(p)
        \/ S3StoreRemoveTmp(p)
        \/ S3StoreHashedStat(p)
        \/ S3StoreHashedPut(p)
        \/ S3FetchStep(p)
        \/ S3ExistsStep(p)
        \/ S3SizeStep(p)
        \/ S3RemoveStep(p)
        \/ MemLock(p)
        \/ MemRLock(p)
        \/ MemStoreBody(p)
        \/ MemStoreHashedBody(p)
        \/ MemFetchBody(p)
        \/ MemExistsBody(p)
        \/ MemSizeBody(p)
        \/ MemRemoveBody(p)

SpecHashed == Init /\ [][NextHashed]_vars

\* Store and StoreHashed calls of two callers.
NextHashedConcurrent ==
    \E p \in Procs :
        \/ ConcurrentStore(p)
        \/ ConcurrentStoreHashed(p)
        \/ LocalStoreCreateTemp(p)
        \/ LocalStoreCopy(p)
        \/ LocalStoreClose(p)
        \/ LocalStoreStat(p)
        \/ LocalStoreMkdirAll(p)
        \/ LocalStoreRename(p)
        \/ LocalStoreChmod(p)
        \/ LocalStoreDeferred(p)
        \/ LocalStoreHashedStep(p)
        \/ S3StorePut(p)
        \/ S3StoreCopy(p)
        \/ S3StoreRemoveTmp(p)
        \/ S3StoreHashedStat(p)
        \/ S3StoreHashedPut(p)
        \/ MemLock(p)
        \/ MemStoreBody(p)
        \/ MemStoreHashedBody(p)

SpecHashedConcurrent == InitConcurrent /\ [][NextHashedConcurrent]_vars

\* Store, Remove and Iterate calls of two callers.
NextOverlap ==
    \E p \in Procs :
        \/ OverlapStore(p)
        \/ OverlapRemove(p)
        \/ OverlapIterate(p)
        \/ LocalStoreCreateTemp(p)
        \/ LocalStoreCopy(p)
        \/ LocalStoreClose(p)
        \/ LocalStoreStat(p)
        \/ LocalStoreMkdirAll(p)
        \/ LocalStoreRename(p)
        \/ LocalStoreChmod(p)
        \/ LocalStoreDeferred(p)
        \/ LocalRemoveFile(p)
        \/ LocalRemoveOpenDir(p)
        \/ LocalRemoveReaddir(p)
        \/ LocalRemoveDir(p)
        \/ LocalIterateRoot(p)
        \/ LocalIterateDir(p)
        \/ LocalIterateFile(p)
        \/ LocalIterateEnd(p)
        \/ S3StorePut(p)
        \/ S3StoreCopy(p)
        \/ S3StoreRemoveTmp(p)
        \/ S3RemoveStep(p)
        \/ S3IterateList(p)
        \/ S3IterateNext(p)
        \/ S3IterateEnd(p)
        \/ MemLock(p)
        \/ MemRLock(p)
        \/ MemStoreBody(p)
        \/ MemRemoveBody(p)
        \/ MemIterateNext(p)
        \/ MemIterateEnd(p)

SpecOverlap == InitConcurrent /\ [][NextOverlap]_vars

\* Stores, locators, and calls of the local store with too short a hash.
NextLocator ==
    \E p \in Procs :
        \/ LocatorStore(p)
        \/ CallImgproxyURLSource(p)
        \/ CallWithShortHash(p)
        \/ ImgproxyURLSourceStep(p)
        \/ LocalStoreCreateTemp(p)
        \/ LocalStoreCopy(p)
        \/ LocalStoreClose(p)
        \/ LocalStoreStat(p)
        \/ LocalStoreMkdirAll(p)
        \/ LocalStoreRename(p)
        \/ LocalStoreChmod(p)
        \/ LocalStoreDeferred(p)
        \/ LocalFetchStep(p)
        \/ LocalRemoveFile(p)
        \/ LocalSizeStep(p)
        \/ S3StorePut(p)
        \/ S3StoreCopy(p)
        \/ S3StoreRemoveTmp(p)
        \/ MemLock(p)
        \/ MemStoreBody(p)

SpecLocator == Init /\ [][NextLocator]_vars

\* Stores and Removes, and Iterates with the collecting callback.
NextCollect ==
    \E p \in Procs :
        \/ CollectStore(p)
        \/ CollectRemove(p)
        \/ CallCollect(p)
        \/ CallbackRemove(p)
        \/ CallbackReturn(p)
        \/ LocalStoreCreateTemp(p)
        \/ LocalStoreCopy(p)
        \/ LocalStoreClose(p)
        \/ LocalStoreStat(p)
        \/ LocalStoreMkdirAll(p)
        \/ LocalStoreRename(p)
        \/ LocalStoreChmod(p)
        \/ LocalStoreDeferred(p)
        \/ LocalRemoveFile(p)
        \/ LocalRemoveOpenDir(p)
        \/ LocalRemoveReaddir(p)
        \/ LocalRemoveDir(p)
        \/ LocalIterateRoot(p)
        \/ LocalIterateDir(p)
        \/ LocalIterateFile(p)
        \/ LocalIterateEnd(p)
        \/ S3StorePut(p)
        \/ S3StoreCopy(p)
        \/ S3StoreRemoveTmp(p)
        \/ S3RemoveStep(p)
        \/ S3IterateList(p)
        \/ S3IterateNext(p)
        \/ S3IterateEnd(p)
        \/ MemLock(p)
        \/ MemRLock(p)
        \/ MemStoreBody(p)
        \/ MemRemoveBody(p)
        \/ MemIterateNext(p)
        \/ MemIterateEnd(p)

SpecCollect == Init /\ [][NextCollect]_vars

\* Two callers of the in-memory store.
NextMemory ==
    \E p \in Procs :
        \/ CallMemory(p)
        \/ MemLock(p)
        \/ MemRLock(p)
        \/ MemStoreBody(p)
        \/ MemStoreHashedBody(p)
        \/ MemFetchBody(p)
        \/ MemExistsBody(p)
        \/ MemSizeBody(p)
        \/ MemRemoveBody(p)
        \/ MemIterateNext(p)
        \/ MemIterateEnd(p)

SpecMemory == InitMemory /\ [][NextMemory]_vars

\* Calls of every operation, with live and with cancelled contexts.
NextCancel ==
    \E p \in Procs :
        \/ CallWithContext(p)
        \/ LocalStoreCreateTemp(p)
        \/ LocalStoreCopy(p)
        \/ LocalStoreClose(p)
        \/ LocalStoreStat(p)
        \/ LocalStoreMkdirAll(p)
        \/ LocalStoreRename(p)
        \/ LocalStoreChmod(p)
        \/ LocalStoreDeferred(p)
        \/ LocalStoreHashedStep(p)
        \/ LocalFetchStep(p)
        \/ LocalExistsStep(p)
        \/ LocalSizeStep(p)
        \/ LocalRemoveFile(p)
        \/ LocalRemoveOpenDir(p)
        \/ LocalRemoveReaddir(p)
        \/ LocalRemoveDir(p)
        \/ LocalIterateRoot(p)
        \/ LocalIterateDir(p)
        \/ LocalIterateFile(p)
        \/ LocalIterateEnd(p)
        \/ S3Cancelled(p)
        \/ S3StorePut(p)
        \/ S3StoreCopy(p)
        \/ S3StoreRemoveTmp(p)
        \/ S3StoreHashedStat(p)
        \/ S3StoreHashedPut(p)
        \/ S3FetchStep(p)
        \/ S3ExistsStep(p)
        \/ S3SizeStep(p)
        \/ S3RemoveStep(p)
        \/ S3IterateList(p)
        \/ S3IterateNext(p)
        \/ S3IterateEnd(p)
        \/ MemLock(p)
        \/ MemRLock(p)
        \/ MemStoreBody(p)
        \/ MemStoreHashedBody(p)
        \/ MemFetchBody(p)
        \/ MemExistsBody(p)
        \/ MemSizeBody(p)
        \/ MemRemoveBody(p)
        \/ MemIterateNext(p)
        \/ MemIterateEnd(p)

SpecCancel == Init /\ [][NextCancel]_vars

SpecConcurrent == InitConcurrent /\ [][Next]_vars

\* ================================================================ properties
Done(p, op) == proc[p].pc = "done" /\ proc[p].op = op

\* A blob is stored under the hash.
Stored(hash) == Fetch(hash).err = Nil

\* The blobs (not the staging entries) whose bytes are data.
Blobs(data) ==
    CASE backend = "local"  -> {t \in DOMAIN assetFiles : assetFiles[t].data = data}
      [] backend = "s3"     -> {k \in DOMAIN bucket :
                                  CommonPrefix(k) = << >> /\ bucket[k] = data}
      [] backend = "memory" -> {h \in DOMAIN files : files[h] = data}

\* The staging entry of the call of record r is still there.
StagingLeft(r) ==
    CASE backend = "local"  -> r.callNo \in DOMAIN tmpDir
      [] backend = "s3"     -> tmpObjectName(r.callNo) \in DOMAIN bucket
      [] backend = "memory" -> FALSE

\* C1: round trip.  On every backend a Store that returns no error returns
\* the hex SHA-256 of the bytes it was given, and as long as no Remove of
\* that hash has been issued since (or was running meanwhile), Fetch of the
\* hash succeeds and yields exactly those bytes.
RoundTrip ==
    /\ \A p \in Procs :
          Done(p, "Store") /\ proc[p].err = Nil
              => proc[p].hash = Sha256Hex(proc[p].content)
    /\ \A c \in Contents :
          expect[Sha256Hex(c)] = "present"
              => Fetch(Sha256Hex(c)) = [err |-> Nil, data |-> c]

\* A Fetch has returned the two bytes stored before under their hash.
RoundTripWitness ==
    /\ backend = "local"
    /\ Done(1, "Fetch")
    /\ proc[1].err = Nil
    /\ proc[1].data = <<103, 114>>
    /\ proc[1].arg = Sha256Hex(<<103, 114>>)
    /\ expect[proc[1].arg] = "present"

\* C2: no partial artifact.  In every state of the local and object-store
\* backends, in the middle of a Store and after a Store failed at any step,
\* every blob reachable under a hash holds complete bytes whose SHA-256 is
\* that hash.
NoPartialArtifact ==
    /\ backend = "local" =>
          \A t \in DOMAIN assetFiles :
              /\ assetFiles[t].data \in Contents
              /\ t = targetPath(Sha256Hex(assetFiles[t].data))
    /\ backend = "s3" =>
          \A k \in DOMAIN bucket :
              CommonPrefix(k) = << >>
                  => bucket[k] \in Contents /\ k = Sha256Hex(bucket[k])

\* A Store of two bytes has one byte in its staging file while the blob of
\* another Store, which returned an error after its rename, is in place.
NoPartialArtifactWitness ==
    /\ backend = "local"
    /\ Done(1, "Store") /\ proc[1].err # Nil
    /\ Stored(Sha256Hex(proc[1].content))
    /\ proc[2].op = "Store" /\ proc[2].pc = "copy"
    /\ proc[2].content = <<103, 114>>
    /\ tmpDir[proc[2].callNo] = <<103>>

\* C3: concurrent Store convergence.  When both callers have run a Store of
\* the same bytes on the local or the object-store backend, with no I/O
\* fault and no Remove running meanwhile, then under every interleaving both
\* calls returned the hash without error, Fetch of it yields the bytes,
\* exactly one blob holds them and no staging entry of either call remains.
ConcurrentStoreConverges ==
    \A c \in Contents :
        ( /\ backend \in {"local", "s3"}
          /\ faults = 0
          /\ \A p \in Procs : /\ Done(p, "Store")
                               /\ proc[p].content = c
                               /\ ~proc[p].sawRemove )
        => /\ \A p \in Procs : /\ proc[p].hash = Sha256Hex(c)
                                /\ proc[p].err = Nil
                                /\ ~StagingLeft(proc[p])
           /\ Fetch(Sha256Hex(c)) = [err |-> Nil, data |-> c]
           /\ Cardinality(Blobs(c)) = 1

\* Two overlapping Stores of the same bytes have both returned, and both
\* promoted their staging file (neither found the destination in place).
ConcurrentStoreWitness ==
    /\ backend = "local"
    /\ faults = 0
    /\ \A p \in Procs : /\ Done(p, "Store")
                         /\ proc[p].content = <<100>>
                         /\ proc[p].tmpWasRenamed
    /\ calls = 2

\* C4: idempotent Store (local).  With no I/O fault, every Store in a
\* sequence of calls, the first of some bytes and any later one of the same
\* bytes, returns their hash and no error, leaves exactly one persisted
\* copy of them and leaves the staging directory empty.
IdempotentStore ==
    backend = "local" =>
        \A p \in Procs :
            Done(p, "Store") /\ faults = 0
                => /\ proc[p].hash = Sha256Hex(proc[p].content)
                   /\ proc[p].err = Nil
                   /\ tmpDir = EmptyMap
                   /\ Cardinality(Blobs(proc[p].content)) = 1

\* The second of two Stores of the same bytes has returned: it found the
\* destination in place.
IdempotentStoreWitness ==
    /\ backend = "local"
    /\ faults = 0
    /\ calls = 2
    /\ Done(1, "Store")
    /\ proc[1].existed
    /\ proc[1].hash = Sha256Hex(proc[1].content)
    /\ tmpDir = EmptyMap

\* The cleanup error of record r came from removing the staging file.
RemovalFailed(r) ==
    \E i \in DOMAIN r.cleanErr :
        r.cleanErr[i].ctx = "removing temporary file (with previous error)"

\* C5: staging cleanup on failure (local).  Whenever Store returns an error
\* and its staging file was not promoted by rename, the staging file is no
\* longer in the staging directory, unless the removal itself failed.
StagingCleanedOnFailure ==
    backend = "local" =>
        \A p \in Procs :
            ( /\ Done(p, "Store")
              /\ proc[p].err # Nil
              /\ ~proc[p].tmpWasRenamed
              /\ ~RemovalFailed(proc[p]) )
            => ~StagingLeft(proc[p])

\* C6: aggregate cleanup failure (local).  When Store fails with an
\* original error and the cleanup of the staging file (close or remove)
\* fails too, the returned error carries both.
AggregateCleanupFailure ==
    backend = "local" =>
        \A p \in Procs :
            ( /\ Done(p, "Store")
              /\ proc[p].retErr # Nil
              /\ proc[p].cleanErr # Nil )
            => /\ Range(proc[p].retErr) \subseteq Range(proc[p].err)
               /\ Range(proc[p].cleanErr) \subseteq Range(proc[p].err)

\* A Store whose rename failed and whose staging file could not be removed
\* has returned.
AggregateCleanupWitness ==
    /\ backend = "local"
    /\ Done(1, "Store")
    /\ proc[1].retErr = <<Wrap("renaming temp file", "EIO")>>
    /\ RemovalFailed(proc[1])
    /\ Len(proc[1].err) = 2

\* C7: Remove then Fetch.  On every backend, once Remove of a hash has
\* returned without error and no Store of its bytes has been issued since
\* (or was running meanwhile), Fetch of the hash fails with an error that
\* errors.Is matches with ErrNotExist.
RemoveThenFetch ==
    \A h \in Hashes :
        expect[h] = "removed" => ErrorsIs(Fetch(h).err, ErrNotExist)

\* Store, Remove and Fetch have run one after the other; the Fetch returned
\* ErrNotExist.
RemoveThenFetchWitness ==
    /\ backend = "local"
    /\ calls = 3
    /\ ~failed
    /\ Done(1, "Fetch")
    /\ expect[proc[1].arg] = "removed"
    /\ ErrorsIs(proc[1].err, ErrNotExist)

\* The step in which caller p's Remove looks for its target, finds nothing
\* stored under it and returns.
RemoveOfAbsentReturns(p) ==
    /\ proc[p].op = "Remove"
    /\ proc[p].pc \in {"start", "locked"}
    /\ ~Stored(proc[p].arg)
    /\ proc'[p].pc = "done"

\* C8: Remove of an absent hash.  On the local and in-memory backends a
\* Remove of a hash under which nothing is stored returns an error that
\* errors.Is matches with ErrNotExist, and leaves the store unchanged.
RemoveAbsentNotExist ==
    [][ \A p \in Procs :
          backend \in {"local", "memory"} /\ RemoveOfAbsentReturns(p)
              => /\ ErrorsIs(proc'[p].err, ErrNotExist)
                 /\ UNCHANGED <<tmpDir, assetDirs, assetFiles, files>> ]_vars

\* The hashes of the batches, in the order of delivery.
RECURSIVE Flatten(_)
Flatten(bs) == IF bs = << >> THEN << >> ELSE Head(bs) \o Flatten(Tail(bs))

\* C9: Iterate enumerates the live set.  After a sequence of Store and
\* Remove calls that all succeeded, an Iterate that returns no error (batch
\* size at least 1) has given its callback, over all batches, exactly the
\* hashes stored and not removed since, each of them once.
IterateLiveSet ==
    \A p \in Procs :
        ( /\ Done(p, "Iterate")
          /\ proc[p].err = Nil
          /\ proc[p].maxBatch >= 1
          /\ ~failed )
        => LET seen == Flatten(proc[p].batches) IN
           /\ Range(seen) = {h \in Hashes : expect[h] = "present"}
           /\ Len(seen) = Cardinality(Range(seen))

\* Iterate has returned after two Stores of different bytes: two batches of
\* one hash.
IterateLiveSetWitness ==
    /\ backend = "local"
    /\ ~failed
    /\ Done(1, "Iterate")
    /\ proc[1].maxBatch = 1
    /\ Len(proc[1].batches) = 2
    /\ Cardinality({h \in Hashes : expect[h] = "present"}) = 2

\* The number of batches for n hashes in batches of k.
CeilDiv(n, k) == (n + k - 1) \div k

\* C10: Iterate batch count.  With N stored blobs and batch size K >= 1 an
\* Iterate that returns no error has called back ceil(N/K) times; every
\* batch but the last has K hashes, the last has N mod K, or K when K
\* divides N.
IterateBatchCount ==
    \A p \in Procs :
        ( /\ Done(p, "Iterate")
          /\ proc[p].err = Nil
          /\ proc[p].maxBatch >= 1 )
        => LET n  == Cardinality({h \in Hashes : Stored(h)})
               k  == proc[p].maxBatch
               bs == proc[p].batches
           IN  /\ Len(bs) = CeilDiv(n, k)
               /\ \A i \in DOMAIN bs :
                    Len(bs[i]) = IF i < Len(bs) \/ n % k = 0 THEN k ELSE n % k

RemoveKeepsSharedShard ==
    backend = "local" =>
        \A p \in Procs :
            (Done(p, "Remove") /\ proc[p].err = Nil /\ ~overlap)
            => LET dir == prefixPath(proc[p].arg).path IN
               /\ targetPath(proc[p].arg) \notin DOMAIN assetFiles
               /\ dir \in assetDirs <=> DirEntries(dir) # {}
               /\ \A h \in Hashes :
                    expect[h] = "present"
                    => /\ LocalFetch(h).err = Nil
                       /\ Sha256Hex(LocalFetch(h).data) = h
               /\ (~failed /\ DOMAIN assetFiles = {}) => assetDirs = {}

\* "d" and "gr" were stored, both in shard 18; the Remove of one of them
\* has returned and the shard directory still holds the other.
RemoveKeepsSharedShardWitness ==
    /\ backend = "local"
    /\ Done(1, "Remove")
    /\ proc[1].err = Nil
    /\ prefixPath(proc[1].arg).path \in assetDirs
    /\ \E h \in Hashes \ {proc[1].arg} :
          prefixPath(h).path = prefixPath(proc[1].arg).path /\ expect[h] = "present"

\* C13: StoreHashed keeps the first write.  When StoreHashed is called with
\* a hash under which an object with other bytes is stored, the call
\* returns no error, the stored object is unchanged and Fetch of the hash
\* still yields the bytes written first.
StoreHashedKeepsFirst ==
    \A p \in Procs :
        ( /\ Done(p, "StoreHashed")
          /\ proc[p].existed
          /\ proc[p].data # proc[p].content )
        => /\ proc[p].err = Nil
           /\ Fetch(proc[p].arg) = [err |-> Nil, data |-> proc[p].data]

\* C14: blob immutability under concurrency.  Once a Store or StoreHashed
\* call for a hash has returned without error, no step of any overlapping
\* or later Store or StoreHashed call changes what Fetch of that hash
\* yields (no Remove is called).
BlobImmutable ==
    [][ \A h \in Hashes :
          (\E p \in Procs :
              /\ proc[p].pc = "done"
              /\ proc[p].op \in {"Store", "StoreHashed"}
              /\ proc[p].err = Nil
              /\ Target(proc[p]) = h)
          => Fetch(h)' = Fetch(h) ]_vars

\* The error of record r is that of a failing filesystem call or request.
IOFailed(r) == \E i \in DOMAIN r.err : r.err[i].cause = "EIO"

\* C15: Size of a stored blob.  On every backend, while a hash returned by
\* a successful Store(B) is not removed, Size of the hash is the number of
\* bytes of B with no error; a Size call returns exactly that unless a
\* filesystem call or request of its own fails.
SizeOfStored ==
    \A h \in Hashes :
        expect[h] = "present"
        => \E c \in Contents :
             /\ Sha256Hex(c) = h
             /\ Size(h) = [err |-> Nil, size |-> Len(c)]
             /\ \A p \in Procs :
                  (Done(p, "Size") /\ proc[p].arg = h /\ ~IOFailed(proc[p]))
                  => proc[p].err = Nil /\ proc[p].size = Len(c)

\* The bytes "gr" are stored under their hash and Size of it has returned 2.
SizeOfStoredWitness ==
    /\ Done(1, "Size")
    /\ expect[proc[1].arg] = "present"
    /\ proc[1].err = Nil
    /\ proc[1].size = 2

\* C16: local Size of an absent hash.  A Size call for a hash under which
\* nothing is stored (and whose os.Stat does not fail otherwise) returns an
\* error that errors.Is matches with ErrNotExist, as Fetch does.
SizeAbsentNotExist ==
    backend = "local" =>
        \A p \in Procs :
            (Done(p, "Size") /\ ~Stored(proc[p].arg) /\ ~IOFailed(proc[p]))
            => ErrorsIs(proc[p].err, ErrNotExist)

\* What a returned call of the object-store backend owes its caller: for
\* the missing key the NotFound condition when notFound is TRUE (else
\* false and nil), for a failed request an error wrapped with context.
Translated(r, notFound) ==
    IF IOFailed(r)
    THEN \A i \in DOMAIN r.err : r.err[i].ctx # ""
    ELSE IF r.arg \in DOMAIN bucket
    THEN r.err = Nil
    ELSE IF notFound
    THEN ErrorsIs(r.err, ErrNotExist)
    ELSE r.err = Nil /\ ~r.ok

\* C17: object-store missing-key translation.  For the missing key, Fetch
\* and Size return an error matching ErrNotExist and Exists returns false
\* and nil; every other error of the backend is returned wrapped with the
\* context of the operation.
MissingKeyTranslated ==
    backend = "s3" =>
        \A p \in Procs :
            /\ Done(p, "Exists") => Translated(proc[p], FALSE)
            /\ Done(p, "Fetch") => Translated(proc[p], TRUE)
            /\ Done(p, "Size") => Translated(proc[p], TRUE)

\* C18: Exists agrees with the store content.  Between sequential Store,
\* StoreHashed and Remove calls the existence probe of a hash is true
\* exactly when Fetch of the hash succeeds; an Exists call returns that
\* answer with no error (unless its request fails), and no step of it
\* changes what is stored.
ExistsAgrees ==
    [][ /\ \A h \in Hashes : Exists(h) = Stored(h)
        /\ \A p \in Procs :
             proc[p].op = "Exists" /\ Busy(p)
             => /\ UNCHANGED <<tmpDir, assetDirs, assetFiles, bucket, files>>
                /\ proc'[p].pc = "done"
                   => \/ IOFailed(proc'[p]) /\ ~proc'[p].ok
                      \/ /\ proc'[p].err = Nil
                         /\ proc'[p].ok = Stored(proc[p].arg) ]_vars

\* A hash was stored and removed again; Exists of it has returned false.
ExistsAgreesWitness ==
    /\ backend = "memory"
    /\ Done(1, "Exists")
    /\ expect[proc[1].arg] = "removed"
    /\ proc[1].err = Nil
    /\ ~proc[1].ok

\* C19: cancellation.  On every backend a call of any operation whose
\* context is cancelled already returns a cancellation error (one that
\* errors.Is matches with context.Canceled); a Store called with a
\* cancelled context on an empty store leaves the store empty.
CancelledCallAborts ==
    \A p \in Procs :
        (proc[p].pc = "done" /\ proc[p].ctxDone)
        => /\ ErrorsIs(proc[p].err, Canceled)
           /\ (proc[p].op = "Store" /\ calls = 1)
              => \A h \in Hashes : ~Stored(h)

\* C20: Iterate holds no long-lived lock.  On every backend, while an
\* Iterate that has called its callback has not returned yet, the lock of
\* the store is free, so that a Store or Remove another caller has issued
\* and not begun takes its first step without waiting for the Iterate.
IterateHoldsNoLock ==
    \A p \in Procs : \A q \in Procs \ {p} :
        ( /\ proc[p].op = "Iterate" /\ Busy(p)
          /\ proc[p].batches # << >>
          /\ proc[q].op \in {"Store", "Remove"} /\ proc[q].pc = "start" )
        => ~mx.writer /\ mx.readers = 0

\* C21: Iterate under concurrent mutation (local).  With no I/O fault and
\* a callback that never fails, an Iterate of the local store that Store or
\* Remove calls overlapped has returned no error, has given its callback no
\* hash twice, and has given it every blob that was there from its call to
\* its return.
IterateUnderMutation ==
    \A p \in Procs :
        ( /\ backend = "local"
          /\ Done(p, "Iterate")
          /\ proc[p].failAt = 0
          /\ faults = 0 )
        => LET seen == Flatten(proc[p].batches) IN
           /\ proc[p].err = Nil
           /\ Len(seen) = Cardinality(Range(seen))
           /\ proc[p].stable \subseteq Range(seen)

\* What a caller can tell from a returned call: success, the NotFound
\* condition, the hash, the bytes, the size and the set of iterated hashes.
Outcome(r) ==
    [ok |-> r.err = Nil, notFound |-> ErrorsIs(r.err, ErrNotExist),
     hash |-> r.hash, data |-> r.data, size |-> r.size,
     seen |-> Range(Flatten(r.batches))]

\* Something was stored under the hash of the running call r when it was
\* called: it is there still, or r is a Remove past its first step, which
\* has taken it away itself.
WasStored(r) ==
    \/ Stored(r.arg)
    \/ r.op = "Remove" /\ r.pc \notin {"start", "locked"}

\* What the in-memory store returns for the call r in a store that holds
\* the blobs held now.
MemoryOutcome(r) ==
    LET none == [ok |-> TRUE, notFound |-> FALSE, hash |-> << >>,
                 data |-> << >>, size |-> 0, seen |-> {}]
        absent == [none EXCEPT !.ok = FALSE, !.notFound = TRUE]
    IN
    CASE r.op = "Store"   -> [none EXCEPT !.hash = Sha256Hex(r.content)]
      [] r.op = "Fetch"   -> IF WasStored(r)
                             THEN [none EXCEPT !.data = Fetch(r.arg).data]
                             ELSE absent
      [] r.op = "Size"    -> IF WasStored(r)
                             THEN [none EXCEPT !.size = Len(Fetch(r.arg).data)]
                             ELSE absent
      [] r.op = "Remove"  -> IF WasStored(r) THEN none ELSE absent
      [] r.op = "Iterate" -> [none EXCEPT !.seen = {h \in Hashes : Stored(h)}]

\* C22: cross-backend equivalence.  In a sequential behaviour without an
\* I/O fault every Store, Fetch, Size, Remove and Iterate call of the local
\* backend and of the in-memory backend returns what the in-memory store
\* returns for it: the same hash, bytes and size, success or failure alike,
\* NotFound testable as ErrNotExist, and the same set of iterated hashes.
LocalSameAsMemory ==
    [][ \A p \in Procs :
          ( /\ backend \in {"local", "memory"}
            /\ callers = 1 /\ faults' = 0
            /\ proc[p].op \in {"Store", "Fetch", "Size", "Remove", "Iterate"}
            /\ Busy(p) /\ proc'[p].pc = "done" )
          => Outcome(proc'[p]) = MemoryOutcome(proc[p]) ]_vars

\* C23: object-store staging-delete failure is non-fatal.  When in a Store
\* the upload and the copy to the hash key succeeded and the deletion of
\* the staging key fails, Store returns the hash of the content and no
\* error; the bucket keeps the blob and the staging key.
StagingDeleteNonFatal ==
    [][ \A p \in Procs :
          ( /\ backend = "s3" /\ proc[p].op = "Store"
            /\ proc[p].pc = "del" /\ proc'[p].pc = "done"
            /\ faults' # faults )
          => /\ proc'[p].err = Nil
             /\ proc'[p].hash = Sha256Hex(proc[p].content)
             /\ bucket' = bucket ]_vars

\* C24: staging entries are never enumerated.  Every string an Iterate has
\* passed to its callback is the hash of some content, never the name of a
\* staging entry or a prefix of one, also after a Store left an orphaned
\* staging key behind.
StagingNeverEnumerated ==
    \A p \in Procs :
        proc[p].op = "Iterate"
        => \A i \in DOMAIN Flatten(proc[p].batches) :
              LET name == Flatten(proc[p].batches)[i] IN
              /\ name \in Hashes
              /\ \A n \in 1 .. MaxCalls + 1 :
                    SubSeq(tmpObjectName(n), 1, Len(name)) # name

\* C25: local locator.  ImgproxyURLSource of the local store returns, for
\* every string of at least PrefixSize characters, "local:///" with the
\* first PrefixSize characters, "/" and the string, and no error, stored or
\* not; for every shorter string it returns the empty locator and
\* errInvalidHash.  Fetch, Remove and Size with a shorter string return
\* errInvalidHash as well, and none of these calls changes a file or a
\* directory.
LocalLocator ==
    [][ \A p \in Procs :
          ( /\ backend = "local"
            /\ proc[p].op \in {"ImgproxyURLSource", "Fetch", "Remove", "Size"}
            /\ proc[p].pc = "start" /\ proc'[p].pc = "done"
            /\ proc[p].op = "ImgproxyURLSource"
                  \/ Len(proc[p].arg) < DefaultPrefixSize )
          => LET h == proc[p].arg IN
             /\ UNCHANGED <<tmpDir, assetDirs, assetFiles>>
             /\ IF Len(h) >= DefaultPrefixSize
                THEN /\ proc'[p].err = Nil
                     /\ proc'[p].url = <<"local:///">>
                                          \o SubSeq(h, 1, DefaultPrefixSize)
                                          \o <<"/">> \o h
                ELSE /\ proc'[p].err = <<errInvalidHash>>
                     /\ proc'[p].url = << >> ]_vars

\* After the Store of "d" the local store was asked for the locator of its
\* hash and has returned "local:///18/18ac".
LocalLocatorWitness ==
    /\ backend = "local"
    /\ Done(1, "ImgproxyURLSource")
    /\ Stored(proc[1].arg)
    /\ proc[1].err = Nil
    /\ proc[1].url = <<"local:///", "1", "8", "/", "1", "8", "a", "c">>

\* C26: object-store and in-memory locators.  For every string, of any
\* length and stored or not, ImgproxyURLSource of the object store returns
\* "s3://", the bucket name, "/" and the string, and that of the in-memory
\* store "memory://" and the string, both with no error and with the store
\* left as it was.
BucketAndMemoryLocator ==
    [][ \A p \in Procs :
          ( /\ backend \in {"s3", "memory"}
            /\ proc[p].op = "ImgproxyURLSource"
            /\ proc[p].pc = "start" /\ proc'[p].pc = "done" )
          => LET h == proc[p].arg IN
             /\ UNCHANGED <<bucket, files, mx>>
             /\ proc'[p].err = Nil
             /\ proc'[p].url = IF backend = "s3"
                               THEN <<"s3://">> \o BucketName \o <<"/">> \o h
                               ELSE <<"memory://">> \o h ]_vars

\* With "d" stored the object store was asked for the locator of the empty
\* string and has returned "s3://b/".
BucketAndMemoryLocatorWitness ==
    /\ backend = "s3"
    /\ Stored(Sha256Hex(<<100>>))
    /\ Done(1, "ImgproxyURLSource")
    /\ proc[1].arg = << >>
    /\ proc[1].err = Nil
    /\ proc[1].url = <<"s3://", "b", "/">>

\* C27: orphaned staging keys have a single cause (object store).  When a
\* Store has returned and its staging key is still in the bucket, the copy
\* to the hash key had succeeded and the staging delete is what failed; a
\* Store whose upload or copy failed has left no staging object.
OrphanOnlyAfterCopy ==
    \A p \in Procs :
        ( /\ backend = "s3"
          /\ Done(p, "Store")
          /\ tmpObjectName(proc[p].callNo) \in DOMAIN bucket )
        => \E i \in DOMAIN proc[p].err :
              proc[p].err[i].ctx = "removing temp object"

\* C28: object-store StoreHashed uploads only when the key is absent.  A
\* step of a StoreHashed call of the object store that writes under the key
\* finds no object under it, whatever its probe answered: an object stored
\* under the key is not overwritten.
StoreHashedOnlyWhenAbsent ==
    [][ \A p \in Procs :
          ( /\ backend = "s3"
            /\ proc[p].op = "StoreHashed" /\ Busy(p)
            /\ proc'[p].pc = "done"
            /\ proc[p].arg \in DOMAIN bucket )
          => bucket'[proc[p].arg] = bucket[proc[p].arg] ]_vars

\* C29: fixed permission mode (local).  When a Store call of the local
\* store returns without error, the blob file under the returned hash has
\* the mode TargetFileMode, whatever calls came before, an earlier Store of
\* the same content that failed at its chmod included.
StoredWithTargetMode ==
    [][ \A p \in Procs :
          ( /\ backend = "local"
            /\ proc[p].op = "Store" /\ Busy(p)
            /\ proc'[p].pc = "done" /\ proc'[p].err = Nil )
          => LET t == targetPath(proc'[p].hash) IN
             /\ t \in DOMAIN assetFiles'
             /\ assetFiles'[t].mode = DefaultTargetFileMode ]_vars

\* C30: shard layout invariant (local).  Whenever every Store and Remove
\* called so far has returned, every blob file lies in the shard directory
\* named by the first PrefixSize characters of its hash, none lies in the
\* assets directory itself, and every shard directory holds a blob.
ShardLayout ==
    (backend = "local" /\ \A p \in Procs : ~Busy(p))
    => /\ \A t \in DOMAIN assetFiles :
             /\ t[2] \in Hashes
             /\ t[1] = SubSeq(t[2], 1, DefaultPrefixSize)
             /\ t[1] # << >>
             /\ t[1] \in assetDirs
       /\ \A dir \in assetDirs : DirEntries(dir) # {}

\* C31: Store is not broken by a concurrent Remove in the same shard
\* (local).  With no I/O fault, a Store(B) of the local store that
\* overlapped a Remove of another hash with the shard prefix of hash(B),
\* and no Remove of hash(B) itself, has returned hash(B) without error, and
\* Fetch of hash(B) yields B.
StoreSurvivesShardRemove ==
    \A p \in Procs : \A q \in Procs \ {p} :
        ( /\ backend = "local" /\ faults = 0
          /\ Done(p, "Store")
          /\ proc[p].sawRemove /\ ~proc[p].raced
          /\ proc[q].op = "Remove"
          /\ proc[q].arg # Sha256Hex(proc[p].content)
          /\ prefixPath(proc[q].arg).path
                = prefixPath(Sha256Hex(proc[p].content)).path )
        => /\ proc[p].err = Nil
           /\ proc[p].hash = Sha256Hex(proc[p].content)
           /\ Fetch(proc[p].hash) = [err |-> Nil, data |-> proc[p].content]

\* C32: Remove reports an error only when nothing was removed (local).  A
\* Remove of the local store that has deleted the blob file of its hash
\* returns no error, also when another Store or Remove acts on the same
\* shard directory meanwhile.
RemoveErrorMeansNothingRemoved ==
    [][ \A p \in Procs :
          ( /\ backend = "local"
            /\ proc[p].op = "Remove"
            /\ proc[p].pc \in {"opendir", "readdir", "rmdir"}
            /\ proc'[p].pc = "done" )
          => proc'[p].err = Nil ]_vars

\* C33: garbage collection through Iterate terminates.  On every backend
\* an Iterate whose callback calls Remove for the hashes it is given never
\* comes to a state in which it has not returned and no step is possible;
\* when no I/O fault occurs it returns without error and leaves no blob
\* stored.
CollectingIterateReturns ==
    \A p \in Procs :
        (proc[p].op = "Iterate" /\ proc[p].collect)
        => /\ Busy(p) => ENABLED NextCollect
           /\ (proc[p].pc = "done" /\ faults = 0)
              => /\ proc[p].err = Nil
                 /\ \A h \in Hashes : ~Stored(h)

\* The callers inside the critical section of a writing operation, and
\* those inside that of a reading one.
Writers ==
    {p \in Procs : proc[p].op \in {"Store", "StoreHashed", "Remove"}
                      /\ proc[p].pc = "locked"}

Readers ==
    {p \in Procs : proc[p].op \in {"Fetch", "Exists", "Size", "Iterate"}
                      /\ proc[p].pc \in {"rlocked", "callback"}}

\* C34: in-memory locking discipline.  At most one Store, StoreHashed or
\* Remove is inside its critical section, and none together with a Fetch,
\* Exists, Size or Iterate; the lock is held by exactly the callers that
\* are inside, so a call that has returned, with an error or without,
\* holds it no more.
MemoryLockDiscipline ==
    backend = "memory"
    => /\ Cardinality(Writers) <= 1
       /\ Writers # {} => Readers = {}
       /\ mx.writer <=> Writers # {}
       /\ mx.readers = Cardinality(Readers)

\* Two readers are inside together.
MemoryLockDisciplineWitness ==
    /\ backend = "memory"
    /\ Cardinality(Readers) = 2
    /\ mx.readers = 2
    /\ \E h \in Hashes : Stored(h)

\* C35: Remove changes only its target.  On the local and the in-memory
\* backend no step of a Remove(h) changes what Fetch(g) and Size(g) return
\* for any other hash g, so every other stored hash remains stored with the
\* same bytes and size; and a Remove(h) that returns nil leaves no blob
\* under h.
RemoveChangesOnlyTarget ==
    [][\A p \in Procs :
          (/\ backend \in {"local", "memory"}
           /\ proc[p].op = "Remove" /\ Busy(p)
           /\ proc'[p] # proc[p])
          => /\ \A g \in Hashes \ {proc[p].arg} :
                    /\ Fetch(g)' = Fetch(g)
                    /\ Size(g)' = Size(g)
             /\ (proc'[p].pc = "done" /\ proc'[p].err = Nil)
                => ~Stored(proc[p].arg)']_vars

\* A local Remove has returned nil while another blob of the same shard is
\* stored.
RemoveChangesOnlyTargetWitness ==
    /\ backend = "local"
    /\ prefixPath(Sha256Hex(<<100>>)).path \in assetDirs
    /\ \E p \in Procs :
          /\ Done(p, "Remove") /\ proc[p].err = Nil
          /\ proc[p].arg = Sha256Hex(<<100>>)
          /\ ~Stored(proc[p].arg)
          /\ Stored(Sha256Hex(<<103, 114>>))

\* C36: error and hash are exclusive (local Store).  Whenever a local Store
\* has returned a non-nil error its hash is the empty string, and whenever
\* it has returned a non-empty hash its error is nil, on every path, that
\* where the destination exists and the removal of the staging file fails
\* included.
ErrorAndHashExclusive ==
    \A p \in Procs :
        (backend = "local" /\ Done(p, "Store"))
        => /\ proc[p].err # Nil => proc[p].hash = << >>
           /\ proc[p].hash # << >> => proc[p].err = Nil

\* C37: batch size bounds.  For every batch size maxBatch >= 0 and every
\* store content, each batch an Iterate has passed to the callback holds at
\* least one and at most maxBatch hashes.
BatchSizeBounds ==
    \A p \in Procs :
        proc[p].op = "Iterate"
        => \A i \in DOMAIN proc[p].batches :
              /\ Len(proc[p].batches[i]) >= 1
              /\ Len(proc[p].batches[i]) <= proc[p].maxBatch

\* C38: batches are not changed after delivery.  A callback that keeps the
\* slices it was given, without copying them, holds in each of them the
\* hashes it was given, during the Iterate and when it has finished.
BatchesKeptUnchanged ==
    \A p \in Procs :
        proc[p].op = "Iterate" => KeptBatches(proc[p]) = proc[p].batches
====
